---- MODULE Spec2Model ----
(***************************************************************************)
(* Model of the audio emotion analysis of Youtube_AI_Transcriber           *)
(* (src/utils/audio_analyzer.py).                                          *)
(*                                                                         *)
(* Units.  librosa's frame transforms are an external library; the model   *)
(* carries, for every stretch of the sample buffer, the frame values the   *)
(* transforms report there: RMS energy and pitch-track magnitude in        *)
(* thousandths, pitch and spectral centroid in Hz.  A buffer is a          *)
(* run-length encoded sequence of such stretches, so that buffers of       *)
(* 22050 samples per second stay small.  Means are kept as exact           *)
(* fractions [num, den]; confidences are in tenths.                        *)
(***************************************************************************)
EXTENDS Integers, Sequences, FiniteSets, TLC

VARIABLES
    audio,            \* the decoded content of the audio file (run-length encoded)
    pc,               \* position inside analyze_audio / generate_emotion_report
    y,                \* the loaded sample buffer
    emotions,         \* list of EmotionResult
    tone,             \* ToneAnalysis
    speech_patterns,  \* speech pattern dict
    overall_mood,
    confidence_score,
    result,           \* the AudioAnalysis returned, or None
    error,            \* the exception raised to the caller, or None
    report,           \* the record json.dump wrote, as re-read
    call,             \* argument of a directly applied helper function
    ret,              \* its return value
    _analyzer,        \* the module-level analyzer instance, or None
    constructed,      \* number of AudioAnalyzer() constructions so far
    analyzer,         \* the instance the running call works on
    history,          \* the finished calls of analyze_audio_emotions
    func,             \* the retry wrapper that is running
    max_retries,      \* its argument
    attempt,          \* its loop variable
    trace,            \* the invocations and sleeps it has made
    returned,         \* the value it returned
    report_files,     \* number of report files in the analysis directory
    emotion_analysis, \* main: the answer to the emotion analysis prompt
    audio_path,       \* main: what download_with_retry returned
    transcript,       \* main: what transcribe_with_retry returned
    analysis_results, \* main: what analyze_emotions_with_retry returned
    calls,            \* main: the calls it has made, in order
    _transcriber,     \* transcriber.py: the module-level transcriber, or None
    loaded,           \* number of AudioTranscriber constructions that succeeded
    request           \* the last call of transcribe / transcribe_with_timestamps

module_vars == <<_analyzer, constructed, analyzer, history>>

retry_vars == <<func, max_retries, attempt, trace, returned>>

main_vars == <<emotion_analysis, audio_path, transcript, analysis_results,
               calls>>

transcriber_vars == <<_transcriber, loaded, request>>

vars == <<audio, pc, y, emotions, tone, speech_patterns, overall_mood,
          confidence_score, result, error, report, call, ret,
          module_vars, retry_vars, report_files, main_vars,
          transcriber_vars>>

None == "None"

(***************************************************************************)
(* Program constants                                                       *)
(***************************************************************************)
sample_rate == 22050

SegmentSeconds == 5

emotion_labels == {"happy", "sad", "angry", "neutral", "excited", "calm"}

(***************************************************************************)
(* Bounds of the model                                                     *)
(***************************************************************************)
MaxRuns == 2

MaxEmotions == 4

MaxRateSamples == 120

MaxCalls == 3

MaxRetries == 5
\* whisper models loaded by one process
MaxLoads == 3

(***************************************************************************)
(* Exact fractions                                                         *)
(***************************************************************************)
Frac(n, d) == [num |-> n, den |-> d]

Whole(n) == Frac(n, 1)

\* r > k and r < k for a fraction r with positive denominator and an integer k
FracGt(r, k) == r.num > k * r.den

FracLt(r, k) == r.num < k * r.den

FracEq(r, s) == r.num * s.den = s.num * r.den

(***************************************************************************)
(* Sample buffers                                                          *)
(***************************************************************************)
Silence == [rms |-> 0,   mag |-> 0,   pitch |-> 0,   cent |-> 0]
Loud    == [rms |-> 130, mag |-> 500, pitch |-> 250, cent |-> 3500]
Bright  == [rms |-> 130, mag |-> 50,  pitch |-> 180, cent |-> 3500]
Whisper == [rms |-> 20,  mag |-> 300, pitch |-> 180, cent |-> 1500]

Tones == {Silence, Loud, Bright, Whisper}

\* lengths of one run, in samples: around the 5-second window and beyond it
RunLengths == {1, 3 * sample_rate, 5 * sample_rate - 1, 5 * sample_rate,
               5 * sample_rate + 1, 6 * sample_rate}

Runs == [len : RunLengths, tone : Tones]

RECURSIVE SeqsUpTo(_, _)
SeqsUpTo(S, n) ==
    IF n = 0 THEN {<<>>}
    ELSE LET shorter == SeqsUpTo(S, n - 1)
         IN  shorter \cup {Append(s, x) : s \in shorter, x \in S}

Buffers == SeqsUpTo(Runs, MaxRuns)

\* len(y)
RECURSIVE BufLen(_)
BufLen(buf) == IF buf = <<>> THEN 0 ELSE Head(buf).len + BufLen(Tail(buf))

Min(a, b) == IF a < b THEN a ELSE b

Max(a, b) == IF a > b THEN a ELSE b

\* y[start:end]
RECURSIVE Slice(_, _, _)
Slice(buf, start, end) ==
    IF buf = <<>> \/ end <= 0 THEN <<>>
    ELSE LET r  == Head(buf)
             lo == Max(start, 0)
             hi == Min(end, r.len)
             rest == Slice(Tail(buf), start - r.len, end - r.len)
         IN  IF hi > lo THEN <<[len |-> hi - lo, tone |-> r.tone]>> \o rest
             ELSE rest

\* sum of a frame value over the buffer
RECURSIVE FrameSum(_, _)
FrameSum(buf, f) ==
    IF buf = <<>> THEN 0
    ELSE Head(buf).len * Head(buf).tone[f] + FrameSum(Tail(buf), f)

\* pitches[magnitudes > 0.1]
RECURSIVE Voiced(_)
Voiced(buf) ==
    IF buf = <<>> THEN <<>>
    ELSE IF Head(buf).tone.mag > 100 THEN <<Head(buf)>> \o Voiced(Tail(buf))
         ELSE Voiced(Tail(buf))

IsSilent(buf) == \A k \in 1..Len(buf) : buf[k].tone = Silence

(***************************************************************************)
(* AudioAnalyzer._extract_emotion_features: the three features the rules   *)
(* read.  (pitch_std, energy_std, mfcc_* and zcr_mean are computed by the  *)
(* code but read by nothing else.)                                         *)
(***************************************************************************)
_extract_emotion_features(segment) ==
    LET pitch_values == Voiced(segment)
    IN  [pitch_mean |->
             IF BufLen(pitch_values) > 0
             THEN Frac(FrameSum(pitch_values, "pitch"), BufLen(pitch_values))
             ELSE Whole(0),
         energy_mean |-> Frac(FrameSum(segment, "rms"), BufLen(segment)),
         spectral_centroid_mean |->
             Frac(FrameSum(segment, "cent"), BufLen(segment))]

\* Variant of _classify_emotion with the first two rules in the other order.
_classify_emotion_happy_first(features) ==
    LET pitch_mean        == features.pitch_mean
        energy_mean       == features.energy_mean
        spectral_centroid == features.spectral_centroid_mean
    IN  IF FracGt(energy_mean, 80) /\ FracGt(spectral_centroid, 2000)
        THEN <<"happy", 7>>
        ELSE IF FracGt(energy_mean, 100) /\ FracGt(pitch_mean, 200)
        THEN <<"excited", 8>>
        ELSE IF FracLt(energy_mean, 50) /\ FracLt(pitch_mean, 150)
        THEN <<"sad", 6>>
        ELSE IF FracGt(energy_mean, 120) /\ FracGt(spectral_centroid, 3000)
        THEN <<"angry", 7>>
        ELSE IF FracLt(energy_mean, 30)
        THEN <<"calm", 8>>
        ELSE <<"neutral", 5>>

\* Variant of _classify_emotion with the calm rule tried before the sad rule.
_classify_emotion_calm_first(features) ==
    LET pitch_mean        == features.pitch_mean
        energy_mean       == features.energy_mean
        spectral_centroid == features.spectral_centroid_mean
    IN  IF FracGt(energy_mean, 100) /\ FracGt(pitch_mean, 200)
        THEN <<"excited", 8>>
        ELSE IF FracGt(energy_mean, 80) /\ FracGt(spectral_centroid, 2000)
        THEN <<"happy", 7>>
        ELSE IF FracLt(energy_mean, 30)
        THEN <<"calm", 8>>
        ELSE IF FracLt(energy_mean, 50) /\ FracLt(pitch_mean, 150)
        THEN <<"sad", 6>>
        ELSE IF FracGt(energy_mean, 120) /\ FracGt(spectral_centroid, 3000)
        THEN <<"angry", 7>>
        ELSE <<"neutral", 5>>

\* Variant of _classify_emotion whose neutral confidence follows the energy.
_classify_emotion_graded(features) ==
    LET pitch_mean        == features.pitch_mean
        energy_mean       == features.energy_mean
        spectral_centroid == features.spectral_centroid_mean
    IN  IF FracGt(energy_mean, 100) /\ FracGt(pitch_mean, 200)
        THEN <<"excited", 8>>
        ELSE IF FracGt(energy_mean, 80) /\ FracGt(spectral_centroid, 2000)
        THEN <<"happy", 7>>
        ELSE IF FracLt(energy_mean, 50) /\ FracLt(pitch_mean, 150)
        THEN <<"sad", 6>>
        ELSE IF FracGt(energy_mean, 120) /\ FracGt(spectral_centroid, 3000)
        THEN <<"angry", 7>>
        ELSE IF FracLt(energy_mean, 30)
        THEN <<"calm", 8>>
        ELSE <<"neutral", IF FracGt(energy_mean, 100) THEN 6 ELSE 5>>

\* Variant of _classify_emotion with the angry rule tried first.
_classify_emotion_angry_first(features) ==
    LET pitch_mean        == features.pitch_mean
        energy_mean       == features.energy_mean
        spectral_centroid == features.spectral_centroid_mean
    IN  IF FracGt(energy_mean, 120) /\ FracGt(spectral_centroid, 3000)
        THEN <<"angry", 7>>
        ELSE IF FracGt(energy_mean, 100) /\ FracGt(pitch_mean, 200)
        THEN <<"excited", 8>>
        ELSE IF FracGt(energy_mean, 80) /\ FracGt(spectral_centroid, 2000)
        THEN <<"happy", 7>>
        ELSE IF FracLt(energy_mean, 50) /\ FracLt(pitch_mean, 150)
        THEN <<"sad", 6>>
        ELSE IF FracLt(energy_mean, 30)
        THEN <<"calm", 8>>
        ELSE <<"neutral", 5>>

(***************************************************************************)
(* AudioAnalyzer._classify_emotion: the if/elif ladder.  Energy thresholds *)
(* are in thousandths (0.1 is 100), confidences in tenths (0.8 is 8).      *)
(***************************************************************************)
_classify_emotion(features) ==
    LET pitch_mean        == features.pitch_mean
        energy_mean       == features.energy_mean
        spectral_centroid == features.spectral_centroid_mean
    IN  IF FracGt(energy_mean, 100) /\ FracGt(pitch_mean, 200)
        THEN <<"excited", 8>>
        ELSE IF FracGt(energy_mean, 80) /\ FracGt(spectral_centroid, 2000)
        THEN <<"happy", 7>>
        ELSE IF FracLt(energy_mean, 50) /\ FracLt(pitch_mean, 150)
        THEN <<"sad", 6>>
        ELSE IF FracGt(energy_mean, 120) /\ FracGt(spectral_centroid, 3000)
        THEN <<"angry", 7>>
        ELSE IF FracLt(energy_mean, 30)
        THEN <<"calm", 8>>
        ELSE <<"neutral", 5>>

EmotionResult(emotion, confidence, timestamp) ==
    [emotion |-> emotion, confidence |-> confidence, timestamp |-> timestamp]

\* Variant of SegmentAt whose windows advance by half a window.
SegmentAt_overlapping(buf, segment_length, i) ==
    LET start == i * (segment_length \div 2)
        end   == start + segment_length
    IN  [start |-> start, end |-> end, segment |-> Slice(buf, start, end)]

\* the window of loop index i: start, end and segment = y[start:end]
SegmentAt(buf, segment_length, i) ==
    LET start == i * segment_length
        end   == start + segment_length
    IN  [start |-> start, end |-> end, segment |-> Slice(buf, start, end)]

\* Variant of DetectLoop that stamps a segment with the time of its end.
RECURSIVE DetectLoop_end_stamp(_, _, _, _, _)
DetectLoop_end_stamp(buf, segment_length, num_segments, i, acc) ==
    IF i >= num_segments THEN acc
    ELSE LET window   == SegmentAt(buf, segment_length, i)
             features == _extract_emotion_features(window.segment)
             cls      == _classify_emotion(features)
         IN  DetectLoop_end_stamp(buf, segment_length, num_segments, i + 1,
                        Append(acc, EmotionResult(cls[1], cls[2],
                                                  (i + 1) * SegmentSeconds)))

\* Variant of DetectLoop whose features are taken over all samples up to
\* the end of the window.
RECURSIVE DetectLoop_cumulative(_, _, _, _, _)
DetectLoop_cumulative(buf, segment_length, num_segments, i, acc) ==
    IF i >= num_segments THEN acc
    ELSE LET window   == SegmentAt(buf, segment_length, i)
             features == _extract_emotion_features(Slice(buf, 0, window.end))
             cls      == _classify_emotion(features)
         IN  DetectLoop_cumulative(buf, segment_length, num_segments, i + 1,
                        Append(acc, EmotionResult(cls[1], cls[2],
                                                  i * SegmentSeconds)))

(***************************************************************************)
(* AudioAnalyzer._detect_emotions: the loop over the 5-second segments.    *)
(* DetectLoop is the loop from index i on, acc the list built so far.      *)
(* The timestamp i * 5.0 is kept in whole seconds.                         *)
(***************************************************************************)
RECURSIVE DetectLoop(_, _, _, _, _)
DetectLoop(buf, segment_length, num_segments, i, acc) ==
    IF i >= num_segments THEN acc
    ELSE LET window   == SegmentAt(buf, segment_length, i)
             features == _extract_emotion_features(window.segment)
             cls      == _classify_emotion(features)
         IN  DetectLoop(buf, segment_length, num_segments, i + 1,
                        Append(acc, EmotionResult(cls[1], cls[2],
                                                  i * SegmentSeconds)))

\* Variant of _detect_emotions that counts a trailing partial segment too.
_detect_emotions_padded(buf, sr) ==
    LET segment_length == SegmentSeconds * sr
        num_segments   == (BufLen(buf) + segment_length - 1) \div segment_length
    IN  DetectLoop(buf, segment_length, num_segments, 0, <<>>)

_detect_emotions(buf, sr) ==
    LET segment_length == SegmentSeconds * sr
        num_segments   == BufLen(buf) \div segment_length
    IN  DetectLoop(buf, segment_length, num_segments, 0, <<>>)

(***************************************************************************)
(* AudioAnalyzer._determine_overall_mood.  The dict emotion_counts is a    *)
(* sequence of <<label, count>> items in insertion order, which is the     *)
(* order items() yields; max keeps the first item of maximal count.        *)
(***************************************************************************)
DictGet(items, key, default) ==
    IF \E k \in 1..Len(items) : items[k][1] = key
    THEN items[CHOOSE k \in 1..Len(items) : items[k][1] = key][2]
    ELSE default

DictSet(items, key, value) ==
    IF \E k \in 1..Len(items) : items[k][1] = key
    THEN [k \in 1..Len(items) |->
             IF items[k][1] = key THEN <<key, value>> ELSE items[k]]
    ELSE Append(items, <<key, value>>)

RECURSIVE CountEmotions(_, _)
CountEmotions(es, emotion_counts) ==
    IF es = <<>> THEN emotion_counts
    ELSE CountEmotions(Tail(es),
             DictSet(emotion_counts, Head(es).emotion,
                     DictGet(emotion_counts, Head(es).emotion, 0) + 1))

\* Variant of MaxByCount that keeps the last item of maximal count.
RECURSIVE MaxByCount_last(_, _)
MaxByCount_last(items, best) ==
    IF items = <<>> THEN best
    ELSE MaxByCount_last(Tail(items),
                    IF Head(items)[2] >= best[2] THEN Head(items) ELSE best)

\* max(items, key=lambda x: x[1]) over a non-empty sequence
RECURSIVE MaxByCount(_, _)
MaxByCount(items, best) ==
    IF items = <<>> THEN best
    ELSE MaxByCount(Tail(items),
                    IF Head(items)[2] > best[2] THEN Head(items) ELSE best)

_determine_overall_mood(es) ==
    IF es = <<>> THEN "neutral"
    ELSE LET emotion_counts == CountEmotions(es, <<>>)
             most_common    == MaxByCount(Tail(emotion_counts),
                                          Head(emotion_counts))
         IN  most_common[1]

(***************************************************************************)
(* AudioAnalyzer._calculate_confidence: np.mean of the confidences, kept   *)
(* as the exact fraction sum / count (in tenths).                          *)
(***************************************************************************)
RECURSIVE SumConfidence(_)
SumConfidence(es) ==
    IF es = <<>> THEN 0 ELSE Head(es).confidence + SumConfidence(Tail(es))

\* Variant of _calculate_confidence that returns the sum, not the mean.
_calculate_confidence_sum(es) ==
    IF es = <<>> THEN Whole(0)
    ELSE Whole(SumConfidence(es))

_calculate_confidence(es) ==
    IF es = <<>> THEN Whole(0)
    ELSE Frac(SumConfidence(es), Len(es))

(***************************************************************************)
(* Python floats (IEEE-754 binary64, round to nearest, ties to even).      *)
(* A positive float is [m, e] with value m * 2^e and 2^52 <= m < 2^53; m   *)
(* is a natural number held as 4 little-endian limbs of 15 bits (8 for the  *)
(* exact product of two mantissas), since a mantissa does not fit the      *)
(* model checker's integers.                                               *)
(***************************************************************************)
MantissaBits == 53

LimbBits == 15

LimbBase == 2 ^ LimbBits

BigZero == <<0, 0, 0, 0>>

\* a natural number below 2^31 as limbs
BigOfInt(n) ==
    <<n % LimbBase, (n \div LimbBase) % LimbBase,
      (n \div LimbBase) \div LimbBase, 0>>

RECURSIVE BigAddFrom(_, _, _, _)
BigAddFrom(a, b, i, carry) ==
    IF i > Len(a) THEN <<>>
    ELSE LET s == a[i] + b[i] + carry
         IN  <<s % LimbBase>> \o BigAddFrom(a, b, i + 1, s \div LimbBase)

BigAdd(a, b) == BigAddFrom(a, b, 1, 0)

\* a - b for a >= b
RECURSIVE BigSubFrom(_, _, _, _)
BigSubFrom(a, b, i, borrow) ==
    IF i > Len(a) THEN <<>>
    ELSE LET d == a[i] - b[i] - borrow
         IN  IF d < 0 THEN <<d + LimbBase>> \o BigSubFrom(a, b, i + 1, 1)
             ELSE <<d>> \o BigSubFrom(a, b, i + 1, 0)

BigSub(a, b) == BigSubFrom(a, b, 1, 0)

RECURSIVE BigGeqFrom(_, _, _)
BigGeqFrom(a, b, i) ==
    IF i = 0 THEN TRUE
    ELSE IF a[i] > b[i] THEN TRUE
    ELSE IF a[i] < b[i] THEN FALSE
    ELSE BigGeqFrom(a, b, i - 1)

BigGeq(a, b) == BigGeqFrom(a, b, Len(a))

\* a * k for a limb k
RECURSIVE BigMulSmallFrom(_, _, _, _)
BigMulSmallFrom(a, k, i, carry) ==
    IF i > Len(a) THEN <<>>
    ELSE LET p == a[i] * k + carry
         IN  <<p % LimbBase>> \o BigMulSmallFrom(a, k, i + 1, p \div LimbBase)

BigMulSmall(a, k) == BigMulSmallFrom(a, k, 1, 0)

BigShiftLimbs(a, j) == [i \in 1..Len(a) |-> IF i > j THEN a[i - j] ELSE 0]

BigLimb(a, i) == IF i >= 1 /\ i <= Len(a) THEN a[i] ELSE 0

\* a in w limbs
BigPad(a, w) == [i \in 1..w |-> BigLimb(a, i)]

\* a * b in twice the limbs
RECURSIVE BigMulFrom(_, _, _)
BigMulFrom(a, b, j) ==
    IF j > Len(b) THEN BigPad(BigZero, Len(a))
    ELSE BigAdd(BigShiftLimbs(BigMulSmall(a, b[j]), j - 1),
                BigMulFrom(a, b, j + 1))

BigMul(a, b) == BigMulFrom(BigPad(a, 2 * Len(a)), b, 1)

\* bit i of a, bit 0 the lowest
BigBit(a, i) == (a[(i \div LimbBits) + 1] \div (2 ^ (i % LimbBits))) % 2

RECURSIVE BitLen(_)
BitLen(n) == IF n = 0 THEN 0 ELSE 1 + BitLen(n \div 2)

\* number of significant bits of a
RECURSIVE BigBitsFrom(_, _)
BigBitsFrom(a, i) ==
    IF i = 0 THEN 0
    ELSE IF a[i] # 0 THEN (i - 1) * LimbBits + BitLen(a[i])
    ELSE BigBitsFrom(a, i - 1)

BigBits(a) == BigBitsFrom(a, Len(a))

\* a \div 2^s
BigShr(a, s) ==
    LET ls == s \div LimbBits
        bs == s % LimbBits
    IN  [i \in 1..Len(a) |->
            (BigLimb(a, i + ls) \div (2 ^ bs))
            + (BigLimb(a, i + ls + 1) % (2 ^ bs)) * (2 ^ (LimbBits - bs))]

\* a * 2^s, for a result that fits
BigShl(a, s) ==
    LET ls == s \div LimbBits
        bs == s % LimbBits
    IN  [i \in 1..Len(a) |->
            (BigLimb(a, i - ls) % (2 ^ (LimbBits - bs))) * (2 ^ bs)
            + (BigLimb(a, i - ls - 1) \div (2 ^ (LimbBits - bs)))]

\* a mod 2^s is not zero
BigLowBitsSet(a, s) == \E i \in 0..(s - 1) : BigBit(a, i) = 1

\* the float nearest to N * 2^e for N > 0 (sticky: the exact value lies
\* above N * 2^e by less than 2^e), ties to even
FloatRound(N, sticky, e) ==
    LET nb == BigBits(N)
    IN  IF nb <= MantissaBits
        THEN [m |-> BigPad(BigShl(N, MantissaBits - nb), Len(BigZero)),
              e |-> e - (MantissaBits - nb)]
        ELSE LET shift    == nb - MantissaBits
                 q        == BigShr(N, shift)
                 roundbit == BigBit(N, shift - 1)
                 rest     == sticky \/ BigLowBitsSet(N, shift - 1)
                 up       == roundbit = 1 /\ (rest \/ BigBit(q, 0) = 1)
                 q2       == BigPad(IF up THEN BigAdd(q, BigPad(BigOfInt(1), Len(q)))
                                    ELSE q, Len(BigZero))
             IN  IF BigBits(q2) > MantissaBits
                 THEN [m |-> BigShr(q2, 1), e |-> e + shift + 1]
                 ELSE [m |-> q2, e |-> e + shift]

FloatZero == [m |-> BigZero, e |-> 0]

FloatIsZero(x) == x.m = BigZero

\* float(n) for an int 0 <= n < 2^31
FloatOfInt(n) ==
    IF n = 0 THEN FloatZero ELSE FloatRound(BigOfInt(n), FALSE, 0)

\* x * y
FloatMul(x, yf) ==
    IF FloatIsZero(x) \/ FloatIsZero(yf) THEN FloatZero
    ELSE FloatRound(BigMul(x.m, yf.m), FALSE, x.e + yf.e)

\* a 4-limb number as <<low, high>> halves of 30 bits, and back
WideOf(a) == <<a[1] + a[2] * LimbBase, a[3] + a[4] * LimbBase>>

LimbsOf(w) ==
    <<w[1] % LimbBase, w[1] \div LimbBase, w[2] % LimbBase, w[2] \div LimbBase>>

WideBase == LimbBase * LimbBase

\* 2 * w + bit
WideDouble(w, bit) ==
    <<(2 * (w[1] % (WideBase \div 2))) + bit, 2 * w[2] + (w[1] \div (WideBase \div 2))>>

WideGeq(v, w) == v[2] > w[2] \/ (v[2] = w[2] /\ v[1] >= w[1])

\* v - w for v >= w
WideSub(v, w) ==
    IF v[1] >= w[1] THEN <<v[1] - w[1], v[2] - w[2]>>
    ELSE <<(v[1] - w[1]) + WideBase, v[2] - w[2] - 1>>

\* binary long division of two 53-bit mantissas, all numbers in <<low, high>>
\* halves: k more quotient bits of rem / Y appended to Q; the result is
\* <<quotient, remainder>>.  (Testing r2 and Q at every step has them
\* evaluated step by step; no half is ever negative.)
RECURSIVE DivLoop(_, _, _, _)
DivLoop(rem, Y, k, Q) ==
    IF k = 0 \/ Q[1] < 0 THEN <<Q, rem>>
    ELSE LET r2 == WideDouble(rem, 0)
         IN  IF WideGeq(r2, Y)
             THEN DivLoop(WideSub(r2, Y), Y, k - 1, WideDouble(Q, 1))
             ELSE DivLoop(r2, Y, k - 1, WideDouble(Q, 0))

\* x / y for y # 0
FloatDiv(x, yf) ==
    IF FloatIsZero(x) THEN FloatZero
    ELSE LET X   == WideOf(x.m)
             Y   == WideOf(yf.m)
             ge0 == WideGeq(X, Y)
             qr  == DivLoop(IF ge0 THEN WideSub(X, Y) ELSE X, Y,
                            MantissaBits + 2, <<IF ge0 THEN 1 ELSE 0, 0>>)
         IN  FloatRound(LimbsOf(qr[1]), qr[2] # <<0, 0>>,
                        x.e - yf.e - (MantissaBits + 2))

\* the literals 2.5 and 60
Float2_5 == FloatDiv(FloatOfInt(5), FloatOfInt(2))

Float60 == FloatOfInt(60)

\* Variant of _estimate_speaking_rate that divides by the seconds, not the
\* minutes.
_estimate_speaking_rate_per_second(buf, sr) ==
    LET duration        == FloatDiv(FloatOfInt(BufLen(buf)), FloatOfInt(sr))
        estimated_words == FloatMul(duration, Float2_5)
    IN  IF FloatIsZero(duration)
        THEN [raises |-> "ZeroDivisionError", value |-> FloatZero]
        ELSE [raises |-> None, value |-> FloatDiv(estimated_words, duration)]

\* Variant of _estimate_speaking_rate that returns 0.0 for an empty buffer.
_estimate_speaking_rate_guarded(buf, sr) ==
    LET duration        == FloatDiv(FloatOfInt(BufLen(buf)), FloatOfInt(sr))
        estimated_words == FloatMul(duration, Float2_5)
        minutes         == FloatDiv(duration, Float60)
    IN  IF FloatIsZero(minutes)
        THEN [raises |-> None, value |-> FloatZero]
        ELSE [raises |-> None, value |-> FloatDiv(estimated_words, minutes)]

(***************************************************************************)
(* AudioAnalyzer._estimate_speaking_rate.  The result is [raises, value]:  *)
(* Python raises ZeroDivisionError on a float division by 0.0.             *)
(***************************************************************************)
_estimate_speaking_rate(buf, sr) ==
    LET duration        == FloatDiv(FloatOfInt(BufLen(buf)), FloatOfInt(sr))
        estimated_words == FloatMul(duration, Float2_5)
        minutes         == FloatDiv(duration, Float60)
    IN  IF FloatIsZero(minutes)
        THEN [raises |-> "ZeroDivisionError", value |-> FloatZero]
        ELSE [raises |-> None, value |-> FloatDiv(estimated_words, minutes)]

(***************************************************************************)
(* AudioAnalyzer._calculate_pause_frequency: the share of frames whose RMS *)
(* is below 0.3 * mean(RMS).  rms < 0.3 * sum / n is rms * 10 * n < 3 * sum*)
(***************************************************************************)
\* Variant of PauseFrames that also counts the frames on the threshold.
RECURSIVE PauseFrames_or_equal(_, _, _)
PauseFrames_or_equal(buf, total, n) ==
    IF buf = <<>> THEN 0
    ELSE (IF Head(buf).tone.rms * 10 * n <= 3 * total THEN Head(buf).len ELSE 0)
         + PauseFrames_or_equal(Tail(buf), total, n)

RECURSIVE PauseFrames(_, _, _)
PauseFrames(buf, total, n) ==
    IF buf = <<>> THEN 0
    ELSE (IF Head(buf).tone.rms * 10 * n < 3 * total THEN Head(buf).len ELSE 0)
         + PauseFrames(Tail(buf), total, n)

_calculate_pause_frequency(buf, sr) ==
    LET pauses == PauseFrames(buf, FrameSum(buf, "rms"), BufLen(buf))
    IN  Frac(pauses, BufLen(buf))

(***************************************************************************)
(* AudioAnalyzer._analyze_tone.  The result is [raises, value]; the        *)
(* exception of _estimate_speaking_rate passes through.  (pitch_std and    *)
(* energy_std are not modelled.)                                           *)
(***************************************************************************)
_analyze_tone(buf, sr) ==
    LET pitch_values  == Voiced(buf)
        pitch_mean    == IF BufLen(pitch_values) > 0
                         THEN Frac(FrameSum(pitch_values, "pitch"),
                                   BufLen(pitch_values))
                         ELSE Whole(0)
        energy_mean   == Frac(FrameSum(buf, "rms"), BufLen(buf))
        speaking_rate == _estimate_speaking_rate(buf, sr)
    IN  IF speaking_rate.raises # None
        THEN [raises |-> speaking_rate.raises, value |-> <<>>]
        ELSE [raises |-> None,
              value  |-> <<[pitch_mean      |-> pitch_mean,
                            energy_mean     |-> energy_mean,
                            speaking_rate   |-> speaking_rate.value,
                            pause_frequency |->
                                _calculate_pause_frequency(buf, sr)]>>]

\* Variant of _analyze_speech_patterns with a floor division.
_analyze_speech_patterns_floor(buf, sr) ==
    [speech_duration |-> Whole(BufLen(buf) \div sr)]

(***************************************************************************)
(* AudioAnalyzer._analyze_speech_patterns: speech_duration = len(y) / sr.  *)
(* (The other three keys are values of library transforms that nothing     *)
(* else reads.)  An int / int true division is correctly rounded, so the   *)
(* float equals a whole number of seconds exactly when the fraction does.  *)
(***************************************************************************)
_analyze_speech_patterns(buf, sr) ==
    [speech_duration |-> Frac(BufLen(buf), sr)]

(***************************************************************************)
(* AudioAnalysis, and the exception analyze_audio raises: a new Exception  *)
(* whose message embeds the caught one.                                    *)
(***************************************************************************)
AudioAnalysis(es, t, sp, mood, score) ==
    [emotions |-> es, tone |-> t, speech_patterns |-> sp,
     overall_mood |-> mood, confidence_score |-> score]

AnalysisFailure(cause) == [type |-> "Exception", wraps |-> cause]

\* Variant of Raise that starts the call over instead of raising.
Raise_retry(cause) ==
    /\ pc' = "start"
    /\ UNCHANGED <<audio, y, emotions, tone, speech_patterns, overall_mood,
                   confidence_score, result, error, report, call, ret,
                   module_vars, retry_vars,
                   report_files, main_vars, transcriber_vars>>

(***************************************************************************)
(* analyze_audio, one action per statement of its try block.  An optional  *)
(* value is a sequence of length 0 (None) or 1.                            *)
(***************************************************************************)
Raise(cause) ==
    /\ pc' = "raised"
    /\ error' = <<AnalysisFailure(cause)>>
    /\ UNCHANGED <<audio, y, emotions, tone, speech_patterns, overall_mood,
                   confidence_score, result, report, call, ret,
                   module_vars, retry_vars,
                   report_files, main_vars, transcriber_vars>>

\* Variant of Load that serves the buffer of the call before, if any.
Load_stale ==
    /\ pc = "start"
    /\ pc' = "detect"
    /\ y' = IF history # <<>> THEN history[Len(history)].audio ELSE audio
    /\ UNCHANGED <<audio, emotions, tone, speech_patterns, overall_mood,
                   confidence_score, result, error, report, call, ret,
                   module_vars, retry_vars,
                   report_files, main_vars, transcriber_vars>>

\* y, sr = librosa.load(audio_path, sr=self.sample_rate)
Load ==
    /\ pc = "start"
    /\ pc' = "detect"
    /\ y' = audio
    /\ UNCHANGED <<audio, emotions, tone, speech_patterns, overall_mood,
                   confidence_score, result, error, report, call, ret,
                   module_vars, retry_vars,
                   report_files, main_vars, transcriber_vars>>

\* librosa.load raises: the file is missing, unreadable or not decodable
LoadFails ==
    /\ pc = "start"
    /\ Raise("LoadError")

\* emotions = self._detect_emotions(y, sr)
DetectEmotions ==
    /\ pc = "detect"
    /\ pc' = "tone"
    /\ emotions' = _detect_emotions(y, sample_rate)
    /\ UNCHANGED <<audio, y, tone, speech_patterns, overall_mood,
                   confidence_score, result, error, report, call, ret,
                   module_vars, retry_vars,
                   report_files, main_vars, transcriber_vars>>

\* tone = self._analyze_tone(y, sr)
AnalyzeTone ==
    /\ pc = "tone"
    /\ LET r == _analyze_tone(y, sample_rate)
       IN  IF r.raises # None
           THEN Raise(r.raises)
           ELSE /\ pc' = "patterns"
                /\ tone' = r.value
                /\ UNCHANGED <<audio, y, emotions, speech_patterns,
                               overall_mood, confidence_score, result, error,
                               report, call, ret, module_vars, retry_vars,
                               report_files, main_vars, transcriber_vars>>

\* speech_patterns = self._analyze_speech_patterns(y, sr)
AnalyzeSpeechPatterns ==
    /\ pc = "patterns"
    /\ pc' = "mood"
    /\ speech_patterns' = <<_analyze_speech_patterns(y, sample_rate)>>
    /\ UNCHANGED <<audio, y, emotions, tone, overall_mood, confidence_score,
                   result, error, report, call, ret, module_vars, retry_vars,
                   report_files, main_vars, transcriber_vars>>

\* a librosa transform raises inside one of the three analysis steps
\* (_detect_emotions calls none when there is no full segment)
LibraryFails ==
    /\ \/ pc = "detect" /\ BufLen(y) >= SegmentSeconds * sample_rate
       \/ pc = "tone"
       \/ pc = "patterns"
    /\ Raise("LibraryError")

\* overall_mood = self._determine_overall_mood(emotions)
DetermineOverallMood ==
    /\ pc = "mood"
    /\ pc' = "confidence"
    /\ overall_mood' = _determine_overall_mood(emotions)
    /\ UNCHANGED <<audio, y, emotions, tone, speech_patterns,
                   confidence_score, result, error, report, call, ret,
                   module_vars, retry_vars,
                   report_files, main_vars, transcriber_vars>>

\* confidence_score = self._calculate_confidence(emotions)
CalculateConfidence ==
    /\ pc = "confidence"
    /\ pc' = "return"
    /\ confidence_score' = <<_calculate_confidence(emotions)>>
    /\ UNCHANGED <<audio, y, emotions, tone, speech_patterns, overall_mood,
                   result, error, report, call, ret, module_vars, retry_vars,
                   report_files, main_vars, transcriber_vars>>

\* Variant of Return that returns once the speech patterns are there, with
\* the mood and the confidence of an empty emotion list.
Return_early ==
    /\ pc = "mood"
    /\ pc' = "done"
    /\ result' = <<AudioAnalysis(emotions, tone[1], speech_patterns[1],
                                 "neutral", Whole(0))>>
    /\ UNCHANGED <<audio, y, emotions, tone, speech_patterns, overall_mood,
                   confidence_score, error, report, call, ret,
                   module_vars, retry_vars,
                   report_files, main_vars, transcriber_vars>>

\* result = AudioAnalysis(...); return result
Return ==
    /\ pc = "return"
    /\ pc' = "done"
    /\ result' = <<AudioAnalysis(emotions, tone[1], speech_patterns[1],
                                 overall_mood, confidence_score[1])>>
    /\ UNCHANGED <<audio, y, emotions, tone, speech_patterns, overall_mood,
                   confidence_score, error, report, call, ret,
                   module_vars, retry_vars,
                   report_files, main_vars, transcriber_vars>>

(***************************************************************************)
(* Python values handed to json.dump, tagged with their type, and the JSON *)
(* document json.dump writes from them.  A dict is the sequence of its     *)
(* <<key, value>> items in insertion order.  A float is written as its     *)
(* repr, the shortest decimal text that parses back to the same float.     *)
(***************************************************************************)
PyStr(x) == [py |-> "str", v |-> x]

PyFloat(x) == [py |-> "float", v |-> x]

PyList(items) == [py |-> "list", v |-> items]

PyDict(items) == [py |-> "dict", v |-> items]

FloatRepr(x) == <<"repr", x>>

FloatParse(text) == text[2]

RECURSIVE JsonDump(_)
JsonDump(obj) ==
    CASE obj.py = "str"   -> [json |-> "string", v |-> obj.v]
      [] obj.py = "float" -> [json |-> "number", v |-> FloatRepr(obj.v)]
      [] obj.py = "list"  ->
            [json |-> "array",
             v |-> [k \in 1..Len(obj.v) |-> JsonDump(obj.v[k])]]
      [] obj.py = "dict"  ->
            [json |-> "object",
             v |-> [k \in 1..Len(obj.v) |->
                       <<obj.v[k][1], JsonDump(obj.v[k][2])>>]]

RECURSIVE JsonLoad(_)
JsonLoad(doc) ==
    CASE doc.json = "string" -> PyStr(doc.v)
      [] doc.json = "number" -> PyFloat(FloatParse(doc.v))
      [] doc.json = "array"  ->
            PyList([k \in 1..Len(doc.v) |-> JsonLoad(doc.v[k])])
      [] doc.json = "object" ->
            PyDict([k \in 1..Len(doc.v) |->
                       <<doc.v[k][1], JsonLoad(doc.v[k][2])>>])

\* d[key] for a dict that has the key
DictItem(d, key) == d.v[CHOOSE k \in 1..Len(d.v) : d.v[k][1] = key][2]

\* datetime.now().isoformat()
ReportTime == "2025-01-01T00:00:00"

(***************************************************************************)
(* AudioAnalyzer.generate_emotion_report: the dict report_data              *)
(***************************************************************************)
\* Variant of TimelineEntry with timestamp and confidence exchanged.
TimelineEntry_swapped(e) ==
    PyDict(<< <<"timestamp",  PyFloat(e.confidence)>>,
              <<"emotion",    PyStr(e.emotion)>>,
              <<"confidence", PyFloat(e.timestamp)>> >>)

TimelineEntry(e) ==
    PyDict(<< <<"timestamp",  PyFloat(e.timestamp)>>,
              <<"emotion",    PyStr(e.emotion)>>,
              <<"confidence", PyFloat(e.confidence)>> >>)

report_data(analysis) ==
    PyDict(<<
        <<"timestamp",        PyStr(ReportTime)>>,
        <<"overall_mood",     PyStr(analysis.overall_mood)>>,
        <<"confidence_score", PyFloat(analysis.confidence_score)>>,
        <<"tone_analysis",    PyDict(<<
            <<"pitch_mean",      PyFloat(analysis.tone.pitch_mean)>>,
            <<"energy_mean",     PyFloat(analysis.tone.energy_mean)>>,
            <<"speaking_rate",   PyFloat(analysis.tone.speaking_rate)>>,
            <<"pause_frequency", PyFloat(analysis.tone.pause_frequency)>> >>)>>,
        <<"speech_patterns",  PyDict(<<
            <<"speech_duration",
              PyFloat(analysis.speech_patterns.speech_duration)>> >>)>>,
        <<"emotions_timeline",
          PyList([k \in 1..Len(analysis.emotions) |->
                     TimelineEntry(analysis.emotions[k])])>> >>)

\* the report file is written and its path returned; the path carries the
\* time of the call to the second, so that calls made in different seconds
\* (retries are three seconds apart) write different files
GenerateEmotionReport ==
    /\ pc = "done"
    /\ pc' = "reported"
    /\ report' = <<JsonDump(report_data(result[1]))>>
    /\ report_files' = report_files + 1
    /\ UNCHANGED <<audio, y, emotions, tone, speech_patterns, overall_mood,
                   confidence_score, result, error, call, ret,
                   module_vars, retry_vars, main_vars, transcriber_vars>>

\* mkdir or open raises (no file), or json.dump raises on a value it cannot
\* encode, such as a numpy float32 (the file is left cut short); the except
\* clause re-raises the exception as it is
ReportFails ==
    /\ pc = "done"
    /\ pc' = "report_failed"
    /\ \/ /\ error' = <<[type |-> "OSError", wraps |-> None]>>
          /\ report' = report
          /\ report_files' = report_files
       \/ /\ error' = <<[type |-> "TypeError", wraps |-> None]>>
          /\ report' = <<[json |-> "truncated", v |-> <<>>]>>
          /\ report_files' = report_files + 1
    /\ UNCHANGED <<audio, y, emotions, tone, speech_patterns, overall_mood,
                   confidence_score, result, call, ret,
                   module_vars, retry_vars, main_vars, transcriber_vars>>

\* analyze_audio_emotions has not been called, no retry wrapper is running
NoModule ==
    /\ _analyzer = <<>>
    /\ constructed = 0
    /\ analyzer = <<>>
    /\ history = <<>>

\* no report file has been written
NoFiles == report_files = 0

\* main is not running
NoMain ==
    /\ emotion_analysis = FALSE
    /\ audio_path = None
    /\ transcript = None
    /\ analysis_results = None
    /\ calls = <<>>

\* transcriber.py has just been imported: _transcriber = None
NoTranscriber ==
    /\ _transcriber = <<>>
    /\ loaded = 0
    /\ request = <<>>

NoRetry ==
    /\ func = None
    /\ max_retries = 0
    /\ attempt = 0
    /\ trace = <<>>
    /\ returned = <<>>

(***************************************************************************)
(* One call of analyze_audio on an audio file, followed by                 *)
(* generate_emotion_report on the analysis it returned.                    *)
(***************************************************************************)
Init ==
    /\ audio \in Buffers
    /\ pc = "start"
    /\ y = <<>>
    /\ emotions = <<>>
    /\ tone = <<>>
    /\ speech_patterns = <<>>
    /\ overall_mood = None
    /\ confidence_score = <<>>
    /\ result = <<>>
    /\ error = <<>>
    /\ report = <<>>
    /\ call = <<>>
    /\ ret = <<>>
    /\ NoModule
    /\ NoFiles
    /\ NoMain
    /\ NoTranscriber
    /\ NoRetry

Next ==
    \/ Load
    \/ LoadFails
    \/ DetectEmotions
    \/ AnalyzeTone
    \/ AnalyzeSpeechPatterns
    \/ LibraryFails
    \/ DetermineOverallMood
    \/ CalculateConfidence
    \/ Return
    \/ GenerateEmotionReport
    \/ ReportFails

Spec == Init /\ [][Next]_vars

(***************************************************************************)
(* _classify_emotion applied to a feature set: values on, next to and      *)
(* between the thresholds of the rules.                                    *)
(***************************************************************************)
EnergyValues == {0, 29, 30, 31, 49, 50, 51, 80, 81, 100, 101, 120, 121, 130}

PitchValues == {0, 149, 150, 151, 200, 201, 250}

CentroidValues == {0, 2000, 2001, 3000, 3001}

FeatureSets ==
    [pitch_mean             : {Whole(p) : p \in PitchValues},
     energy_mean            : {Whole(e) : e \in EnergyValues},
     spectral_centroid_mean : {Whole(c) : c \in CentroidValues}]

Idle ==
    /\ audio = <<>>
    /\ y = <<>>
    /\ emotions = <<>>
    /\ tone = <<>>
    /\ speech_patterns = <<>>
    /\ overall_mood = None
    /\ confidence_score = <<>>
    /\ result = <<>>
    /\ error = <<>>
    /\ report = <<>>
    /\ NoModule
    /\ NoFiles
    /\ NoMain
    /\ NoTranscriber
    /\ NoRetry

InitClassify ==
    /\ Idle
    /\ pc = "classify"
    /\ call \in FeatureSets
    /\ ret = <<>>

\* emotion, confidence = self._classify_emotion(features)
ClassifyEmotion ==
    /\ pc = "classify"
    /\ pc' = "classified"
    /\ ret' = <<_classify_emotion(call)>>
    /\ UNCHANGED <<audio, y, emotions, tone, speech_patterns, overall_mood,
                   confidence_score, result, error, report, call,
                   module_vars, retry_vars,
                   report_files, main_vars, transcriber_vars>>

SpecClassify == InitClassify /\ [][ClassifyEmotion]_vars

(***************************************************************************)
(* _determine_overall_mood and _calculate_confidence applied to an emotion *)
(* sequence: every sequence of up to MaxEmotions results the classifier    *)
(* can label, stamped 0, 5, 10, ...                                        *)
(***************************************************************************)
Outcomes == {<<"excited", 8>>, <<"happy", 7>>, <<"sad", 6>>, <<"angry", 7>>,
             <<"calm", 8>>, <<"neutral", 5>>}

EmotionSeqs ==
    {[k \in 1..Len(os) |->
         EmotionResult(os[k][1], os[k][2], (k - 1) * SegmentSeconds)] :
     os \in SeqsUpTo(Outcomes, MaxEmotions)}

InitAggregate ==
    /\ audio = <<>>
    /\ y = <<>>
    /\ emotions \in EmotionSeqs
    /\ tone = <<>>
    /\ speech_patterns = <<>>
    /\ overall_mood = None
    /\ confidence_score = <<>>
    /\ result = <<>>
    /\ error = <<>>
    /\ report = <<>>
    /\ pc = "mood"
    /\ call = <<>>
    /\ ret = <<>>
    /\ NoModule
    /\ NoFiles
    /\ NoMain
    /\ NoTranscriber
    /\ NoRetry

NextAggregate ==
    \/ DetermineOverallMood
    \/ CalculateConfidence

SpecAggregate == InitAggregate /\ [][NextAggregate]_vars

(***************************************************************************)
(* _estimate_speaking_rate applied to a buffer of 0..MaxRateSamples        *)
(* samples at the analysis sample rate.                                    *)
(***************************************************************************)
InitRate ==
    /\ audio = <<>>
    /\ \E n \in 0..MaxRateSamples :
           y = IF n = 0 THEN <<>> ELSE <<[len |-> n, tone |-> Loud]>>
    /\ emotions = <<>>
    /\ tone = <<>>
    /\ speech_patterns = <<>>
    /\ overall_mood = None
    /\ confidence_score = <<>>
    /\ result = <<>>
    /\ error = <<>>
    /\ report = <<>>
    /\ pc = "rate"
    /\ call = <<>>
    /\ ret = <<>>
    /\ NoModule
    /\ NoFiles
    /\ NoMain
    /\ NoTranscriber
    /\ NoRetry

\* speaking_rate = self._estimate_speaking_rate(y, sr)
EstimateSpeakingRate ==
    /\ pc = "rate"
    /\ pc' = "rated"
    /\ ret' = <<_estimate_speaking_rate(y, sample_rate)>>
    /\ UNCHANGED <<audio, y, emotions, tone, speech_patterns, overall_mood,
                   confidence_score, result, error, report, call,
                   module_vars, retry_vars,
                   report_files, main_vars, transcriber_vars>>

SpecRate == InitRate /\ [][EstimateSpeakingRate]_vars

(***************************************************************************)
(* _detect_emotions applied to a sample buffer                             *)
(***************************************************************************)
InitDetect ==
    /\ audio \in Buffers
    /\ y = audio
    /\ emotions = <<>>
    /\ tone = <<>>
    /\ speech_patterns = <<>>
    /\ overall_mood = None
    /\ confidence_score = <<>>
    /\ result = <<>>
    /\ error = <<>>
    /\ report = <<>>
    /\ pc = "detect"
    /\ call = <<>>
    /\ ret = <<>>
    /\ NoModule
    /\ NoFiles
    /\ NoMain
    /\ NoTranscriber
    /\ NoRetry

SpecDetect == InitDetect /\ [][DetectEmotions]_vars

(***************************************************************************)
(* _calculate_pause_frequency applied to a non-empty sample buffer         *)
(***************************************************************************)
InitPause ==
    /\ audio \in Buffers \ {<<>>}
    /\ y = audio
    /\ emotions = <<>>
    /\ tone = <<>>
    /\ speech_patterns = <<>>
    /\ overall_mood = None
    /\ confidence_score = <<>>
    /\ result = <<>>
    /\ error = <<>>
    /\ report = <<>>
    /\ pc = "pause"
    /\ call = <<>>
    /\ ret = <<>>
    /\ NoModule
    /\ NoFiles
    /\ NoMain
    /\ NoTranscriber
    /\ NoRetry

\* pause_frequency = self._calculate_pause_frequency(y, sr)
CalculatePauseFrequency ==
    /\ pc = "pause"
    /\ pc' = "paused"
    /\ ret' = <<_calculate_pause_frequency(y, sample_rate)>>
    /\ UNCHANGED <<audio, y, emotions, tone, speech_patterns, overall_mood,
                   confidence_score, result, error, report, call,
                   module_vars, retry_vars,
                   report_files, main_vars, transcriber_vars>>

SpecPause == InitPause /\ [][CalculatePauseFrequency]_vars

(***************************************************************************)
(* A process that calls analyze_audio_emotions up to MaxCalls times, each  *)
(* time on one of a few audio files.  A call runs analyze_audio,           *)
(* generate_emotion_report and create_emotion_visualization on the         *)
(* module-level analyzer; a call that raises leaves the process running.   *)
(***************************************************************************)
Files ==
    {<<>>,
     <<[len |-> 3 * sample_rate, tone |-> Whisper]>>,
     <<[len |-> 6 * sample_rate, tone |-> Silence],
       [len |-> 6 * sample_rate, tone |-> Silence]>>,
     <<[len |-> 5 * sample_rate, tone |-> Loud],
       [len |-> 6 * sample_rate, tone |-> Bright]>>,
     <<[len |-> 5 * sample_rate, tone |-> Bright],
       [len |-> 5 * sample_rate, tone |-> Loud]>>}

\* AudioAnalyzer.__init__; id tells the instances apart
AudioAnalyzer(id) ==
    [id |-> id, emotion_labels |-> emotion_labels,
     sample_rate |-> sample_rate, hop_length |-> 512]

\* the positions at which a call of analyze_audio_emotions has ended
Finished == {"raised", "report_failed", "visualization_failed", "visualized"}

\* Variant of analyzer_is_None that also discards the analyzer of a call
\* that raised.
analyzer_is_None_or_failed == _analyzer = <<>> \/ error # <<>>

\* if _analyzer is None
analyzer_is_None == _analyzer = <<>>

\* analyze_audio_emotions(audio_path) is called: the analyzer is looked up
\* or constructed, and analyze_audio starts with fresh locals.  The call
\* that has just ended goes to the history.
analyze_audio_emotions ==
    /\ pc \in {"idle"} \cup Finished
    /\ Len(history) + (IF pc = "idle" THEN 0 ELSE 1) < MaxCalls
    /\ history' = IF pc = "idle" THEN history
                  ELSE Append(history, [audio    |-> audio,
                                        analyzer |-> analyzer[1].id,
                                        analysis |-> result])
    /\ IF analyzer_is_None
       THEN /\ _analyzer' = <<AudioAnalyzer(constructed + 1)>>
            /\ constructed' = constructed + 1
       ELSE UNCHANGED <<_analyzer, constructed>>
    /\ analyzer' = _analyzer'
    /\ audio' \in Files
    /\ pc' = "start"
    /\ y' = <<>>
    /\ emotions' = <<>>
    /\ tone' = <<>>
    /\ speech_patterns' = <<>>
    /\ overall_mood' = None
    /\ confidence_score' = <<>>
    /\ result' = <<>>
    /\ error' = <<>>
    /\ report' = <<>>
    /\ UNCHANGED <<call, ret, retry_vars,
                   report_files, main_vars, transcriber_vars>>

\* viz_file = _analyzer.create_emotion_visualization(analysis, viz_path);
\* the dict of analysis and file names is returned
CreateEmotionVisualization ==
    /\ pc = "reported"
    /\ pc' = "visualized"
    /\ UNCHANGED <<audio, y, emotions, tone, speech_patterns, overall_mood,
                   confidence_score, result, error, report, call, ret,
                   module_vars, retry_vars,
                   report_files, main_vars, transcriber_vars>>

\* Variant of VisualizationFails that removes the report file of the call.
VisualizationFails_unlinks ==
    /\ pc = "reported"
    /\ pc' = "visualization_failed"
    /\ error' = <<[type |-> "OSError", wraps |-> None]>>
    /\ report_files' = report_files - 1
    /\ UNCHANGED <<audio, y, emotions, tone, speech_patterns, overall_mood,
                   confidence_score, result, report, call, ret,
                   module_vars, retry_vars, main_vars, transcriber_vars>>

\* matplotlib raises (unknown style, unwritable path); the except clause
\* re-raises the exception as it is
VisualizationFails ==
    /\ pc = "reported"
    /\ pc' = "visualization_failed"
    /\ error' = <<[type |-> "OSError", wraps |-> None]>>
    /\ UNCHANGED <<audio, y, emotions, tone, speech_patterns, overall_mood,
                   confidence_score, result, report, call, ret,
                   module_vars, retry_vars,
                   report_files, main_vars, transcriber_vars>>

InitProcess ==
    /\ Idle
    /\ pc = "idle"
    /\ call = <<>>
    /\ ret = <<>>

NextProcess ==
    \/ analyze_audio_emotions
    \/ Load
    \/ LoadFails
    \/ DetectEmotions
    \/ AnalyzeTone
    \/ AnalyzeSpeechPatterns
    \/ LibraryFails
    \/ DetermineOverallMood
    \/ CalculateConfidence
    \/ Return
    \/ GenerateEmotionReport
    \/ ReportFails
    \/ CreateEmotionVisualization
    \/ VisualizationFails

SpecProcess == InitProcess /\ [][NextProcess]_vars

(***************************************************************************)
(* The retry wrappers of main.py (improved_transcriber.py has the same     *)
(* three): download_with_retry, transcribe_with_retry and                  *)
(* analyze_emotions_with_retry.  Each is                                   *)
(*     for attempt in range(max_retries):                                  *)
(*         try: return operation(...)                                      *)
(*         except Exception:                                               *)
(*             if attempt < max_retries - 1: time.sleep(seconds)           *)
(*             else: return None                                           *)
(* trace records the invocations of the operation and the sleeps.          *)
(***************************************************************************)
RetryFunctions ==
    {"download_with_retry", "transcribe_with_retry",
     "analyze_emotions_with_retry"}

\* the operation a wrapper invokes
Operation(f) ==
    CASE f = "download_with_retry"         -> "download_audio"
      [] f = "transcribe_with_retry"       -> "transcribe"
      [] f = "analyze_emotions_with_retry" -> "analyze_audio_emotions"

\* what the operation returns when it does not raise
OperationValue(f) ==
    CASE f = "download_with_retry"         -> "audio_path"
      [] f = "transcribe_with_retry"       -> "transcript"
      [] f = "analyze_emotions_with_retry" -> "analysis_results"

\* the values the operation can return: AudioTranscriber.transcribe returns
\* "" when whisper found no text in the audio
OperationValues(f) ==
    {OperationValue(f)}
        \cup (IF f = "transcribe_with_retry" THEN {""} ELSE {})

\* the argument of time.sleep
SleepSeconds(f) ==
    CASE f = "download_with_retry"         -> 3
      [] f = "transcribe_with_retry"       -> 5
      [] f = "analyze_emotions_with_retry" -> 3

\* one invocation of the operation: it raised, or returned value
Invocation(f, k, raised, value) ==
    [op |-> Operation(f), attempt |-> k, raised |-> raised, value |-> value]

Sleep(seconds) == [op |-> "sleep", seconds |-> seconds]

InitRetry ==
    /\ audio = <<>>
    /\ y = <<>>
    /\ emotions = <<>>
    /\ tone = <<>>
    /\ speech_patterns = <<>>
    /\ overall_mood = None
    /\ confidence_score = <<>>
    /\ result = <<>>
    /\ error = <<>>
    /\ report = <<>>
    /\ NoModule
    /\ NoFiles
    /\ NoMain
    /\ NoTranscriber
    /\ call = <<>>
    /\ ret = <<>>
    /\ pc = "retry_loop"
    /\ func \in RetryFunctions
    /\ max_retries \in 0..MaxRetries
    /\ attempt = 0
    /\ trace = <<>>
    /\ returned = <<>>

\* for attempt in range(max_retries): the next iteration starts, or the
\* range is used up and the function ends without a return statement
RetryLoop ==
    /\ pc = "retry_loop"
    /\ IF attempt < max_retries
       THEN pc' = "retry_try" /\ returned' = returned
       ELSE pc' = "retry_returned" /\ returned' = <<None>>
    /\ UNCHANGED <<audio, y, emotions, tone, speech_patterns, overall_mood,
                   confidence_score, result, error, report, call, ret,
                   module_vars, func, max_retries, attempt, trace,
                   report_files, main_vars, transcriber_vars>>

\* the operation returns and the wrapper returns its value
InvokeReturns ==
    /\ pc = "retry_try"
    /\ pc' = "retry_returned"
    /\ \E value \in OperationValues(func) :
           /\ trace' = Append(trace, Invocation(func, attempt, FALSE, value))
           /\ returned' = <<value>>
    /\ UNCHANGED <<audio, y, emotions, tone, speech_patterns, overall_mood,
                   confidence_score, result, error, report, call, ret,
                   module_vars, func, max_retries, attempt,
                   report_files, main_vars, transcriber_vars>>

\* the operation raises an Exception, which the except clause catches
InvokeRaises ==
    /\ pc = "retry_try"
    /\ pc' = "retry_except"
    /\ trace' = Append(trace, Invocation(func, attempt, TRUE, None))
    /\ UNCHANGED <<audio, y, emotions, tone, speech_patterns, overall_mood,
                   confidence_score, result, error, report, call, ret,
                   module_vars, func, max_retries, attempt, returned,
                   report_files, main_vars, transcriber_vars>>

\* if attempt < max_retries - 1: time.sleep(...), then the next iteration
RetrySleep ==
    /\ pc = "retry_except"
    /\ attempt < max_retries - 1
    /\ pc' = "retry_loop"
    /\ trace' = Append(trace, Sleep(SleepSeconds(func)))
    /\ attempt' = attempt + 1
    /\ UNCHANGED <<audio, y, emotions, tone, speech_patterns, overall_mood,
                   confidence_score, result, error, report, call, ret,
                   module_vars, func, max_retries, returned,
                   report_files, main_vars, transcriber_vars>>

\* Variant of RetryGiveUp that sleeps once more before it returns None.
RetryGiveUp_sleeping ==
    /\ pc = "retry_except"
    /\ ~(attempt < max_retries - 1)
    /\ pc' = "retry_returned"
    /\ trace' = Append(trace, Sleep(SleepSeconds(func)))
    /\ returned' = <<None>>
    /\ UNCHANGED <<audio, y, emotions, tone, speech_patterns, overall_mood,
                   confidence_score, result, error, report, call, ret,
                   module_vars, func, max_retries, attempt,
                   report_files, main_vars, transcriber_vars>>

\* else: return None
RetryGiveUp ==
    /\ pc = "retry_except"
    /\ ~(attempt < max_retries - 1)
    /\ pc' = "retry_returned"
    /\ returned' = <<None>>
    /\ UNCHANGED <<audio, y, emotions, tone, speech_patterns, overall_mood,
                   confidence_score, result, error, report, call, ret,
                   module_vars, func, max_retries, attempt, trace,
                   report_files, main_vars, transcriber_vars>>

NextRetry ==
    \/ RetryLoop
    \/ InvokeReturns
    \/ InvokeRaises
    \/ RetrySleep
    \/ RetryGiveUp

SpecRetry == InitRetry /\ [][NextRetry]_vars

(***************************************************************************)
(* main() of main.py (improved_transcriber.py has the same function): the  *)
(* prompts, then download, transcription, optional emotion analysis, the   *)
(* transcript save and the removal of the audio file.  The three retry     *)
(* wrappers run as above, with max_retries = Config.MAX_RETRIES.  calls    *)
(* records the pipeline functions main calls, in order.                    *)
(***************************************************************************)
MAX_RETRIES == 3

\* Python's truth value of a str or None
Truthy(v) == v \notin {None, ""}

MainCall(fn, arg) == [fn |-> fn, arg |-> arg]

\* main calls the retry wrapper f, with the default max_retries
CallWrapper(f, arg) ==
    /\ calls' = Append(calls, MainCall(f, arg))
    /\ func' = f
    /\ max_retries' = MAX_RETRIES
    /\ attempt' = 0
    /\ trace' = <<>>
    /\ returned' = <<>>
    /\ pc' = "retry_loop"

\* the positions at which main has ended
MainEnded == {"main_returned", "main_interrupted", "main_failed"}

\* the URL loop and the emotion analysis prompt: the user quits, or input()
\* raises EOFError (caught by except Exception), or a valid URL and an
\* answer are read
Prompt ==
    /\ pc = "main_prompt"
    /\ \/ pc' = "main_returned" /\ emotion_analysis' = emotion_analysis
       \/ pc' = "main_failed" /\ emotion_analysis' = emotion_analysis
       \/ pc' = "main_download" /\ emotion_analysis' \in BOOLEAN
    /\ UNCHANGED <<audio, y, emotions, tone, speech_patterns, overall_mood,
                   confidence_score, result, error, report, call, ret,
                   module_vars, retry_vars, report_files, audio_path,
                   transcript, analysis_results, calls, transcriber_vars>>

\* audio_path = download_with_retry(url)
Download ==
    /\ pc = "main_download"
    /\ CallWrapper("download_with_retry", "url")
    /\ UNCHANGED <<audio, y, emotions, tone, speech_patterns, overall_mood,
                   confidence_score, result, error, report, call, ret,
                   module_vars, report_files, emotion_analysis, audio_path,
                   transcript, analysis_results, transcriber_vars>>

\* if not audio_path: return
AfterDownload ==
    /\ pc = "retry_returned"
    /\ func = "download_with_retry"
    /\ audio_path' = returned[1]
    /\ pc' = IF Truthy(audio_path') THEN "main_transcribe" ELSE "main_returned"
    /\ UNCHANGED <<audio, y, emotions, tone, speech_patterns, overall_mood,
                   confidence_score, result, error, report, call, ret,
                   module_vars, retry_vars, report_files, emotion_analysis,
                   transcript, analysis_results, calls, transcriber_vars>>

\* transcript = transcribe_with_retry(audio_path)
Transcribe ==
    /\ pc = "main_transcribe"
    /\ CallWrapper("transcribe_with_retry", audio_path)
    /\ UNCHANGED <<audio, y, emotions, tone, speech_patterns, overall_mood,
                   confidence_score, result, error, report, call, ret,
                   module_vars, report_files, emotion_analysis, audio_path,
                   transcript, analysis_results, transcriber_vars>>

\* Variant of AfterTranscribe that tests "transcript is None".
AfterTranscribe_is_None ==
    /\ pc = "retry_returned"
    /\ func = "transcribe_with_retry"
    /\ transcript' = returned[1]
    /\ IF transcript' # None
       THEN pc' = "main_emotion" /\ calls' = calls
       ELSE /\ calls' = Append(calls, MainCall("cleanup_audio_file",
                                               audio_path))
            /\ pc' = "main_returned"
    /\ UNCHANGED <<audio, y, emotions, tone, speech_patterns, overall_mood,
                   confidence_score, result, error, report, call, ret,
                   module_vars, retry_vars, report_files, emotion_analysis,
                   audio_path, analysis_results, transcriber_vars>>

\* if not transcript: cleanup_audio_file(audio_path); return
AfterTranscribe ==
    /\ pc = "retry_returned"
    /\ func = "transcribe_with_retry"
    /\ transcript' = returned[1]
    /\ IF Truthy(transcript')
       THEN pc' = "main_emotion" /\ calls' = calls
       ELSE /\ calls' = Append(calls, MainCall("cleanup_audio_file",
                                               audio_path))
            /\ pc' = "main_returned"
    /\ UNCHANGED <<audio, y, emotions, tone, speech_patterns, overall_mood,
                   confidence_score, result, error, report, call, ret,
                   module_vars, retry_vars, report_files, emotion_analysis,
                   audio_path, analysis_results, transcriber_vars>>

\* analysis_results = None
\* if emotion_analysis:
\*     analysis_results = analyze_emotions_with_retry(audio_path)
EmotionAnalysis ==
    /\ pc = "main_emotion"
    /\ analysis_results' = None
    /\ IF emotion_analysis
       THEN CallWrapper("analyze_emotions_with_retry", audio_path)
       ELSE pc' = "main_save" /\ UNCHANGED <<retry_vars, calls>>
    /\ UNCHANGED <<audio, y, emotions, tone, speech_patterns, overall_mood,
                   confidence_score, result, error, report, call, ret,
                   module_vars, report_files, emotion_analysis, audio_path,
                   transcript, transcriber_vars>>

\* Variant of AfterEmotionAnalysis that gives up when the analysis failed.
AfterEmotionAnalysis_required ==
    /\ pc = "retry_returned"
    /\ func = "analyze_emotions_with_retry"
    /\ analysis_results' = returned[1]
    /\ IF analysis_results' # None
       THEN /\ calls' = Append(calls, MainCall("display_analysis_summary",
                                               analysis_results'))
            /\ pc' = "main_save"
       ELSE /\ calls' = calls
            /\ pc' = "main_cleanup"
    /\ UNCHANGED <<audio, y, emotions, tone, speech_patterns, overall_mood,
                   confidence_score, result, error, report, call, ret,
                   module_vars, retry_vars, report_files, emotion_analysis,
                   audio_path, transcript, transcriber_vars>>

\* if analysis_results: display_analysis_summary(analysis_results)
\* else: logger.warning(...)
AfterEmotionAnalysis ==
    /\ pc = "retry_returned"
    /\ func = "analyze_emotions_with_retry"
    /\ analysis_results' = returned[1]
    /\ calls' = IF analysis_results' # None
                THEN Append(calls, MainCall("display_analysis_summary",
                                            analysis_results'))
                ELSE calls
    /\ pc' = "main_save"
    /\ UNCHANGED <<audio, y, emotions, tone, speech_patterns, overall_mood,
                   confidence_score, result, error, report, call, ret,
                   module_vars, retry_vars, report_files, emotion_analysis,
                   audio_path, transcript, transcriber_vars>>

\* filename = get_safe_filename(url); save_transcript(transcript, filename)
\* returns True, or False when the file could not be written; main logs
\* the one or the other
SaveTranscript ==
    /\ pc = "main_save"
    /\ calls' = Append(calls, MainCall("save_transcript", transcript))
    /\ pc' = "main_cleanup"
    /\ UNCHANGED <<audio, y, emotions, tone, speech_patterns, overall_mood,
                   confidence_score, result, error, report, call, ret,
                   module_vars, retry_vars, report_files, emotion_analysis,
                   audio_path, transcript, analysis_results,
                   transcriber_vars>>

\* Variant of CleanupAudioFile that leaves the audio file in place.
CleanupAudioFile_skipped ==
    /\ pc = "main_cleanup"
    /\ pc' = "main_returned"
    /\ UNCHANGED <<audio, y, emotions, tone, speech_patterns, overall_mood,
                   confidence_score, result, error, report, call, ret,
                   module_vars, retry_vars, report_files, main_vars,
                   transcriber_vars>>

\* cleanup_audio_file(audio_path), the last statement of the try block
CleanupAudioFile ==
    /\ pc = "main_cleanup"
    /\ calls' = Append(calls, MainCall("cleanup_audio_file", audio_path))
    /\ pc' = "main_returned"
    /\ UNCHANGED <<audio, y, emotions, tone, speech_patterns, overall_mood,
                   confidence_score, result, error, report, call, ret,
                   module_vars, retry_vars, report_files, emotion_analysis,
                   audio_path, transcript, analysis_results,
                   transcriber_vars>>

\* except KeyboardInterrupt: the user stops the program while it waits at a
\* prompt, in an operation or in a sleep; the retry wrappers catch
\* Exception only, so the interrupt ends main
Interrupt ==
    /\ pc \in {"main_prompt", "retry_try", "retry_except"}
    /\ pc' = "main_interrupted"
    /\ UNCHANGED <<audio, y, emotions, tone, speech_patterns, overall_mood,
                   confidence_score, result, error, report, call, ret,
                   module_vars, retry_vars, report_files, main_vars,
                   transcriber_vars>>

InitMain ==
    /\ Idle
    /\ pc = "main_prompt"
    /\ call = <<>>
    /\ ret = <<>>

NextMain ==
    \/ Prompt
    \/ Download
    \/ RetryLoop
    \/ InvokeReturns
    \/ InvokeRaises
    \/ RetrySleep
    \/ RetryGiveUp
    \/ AfterDownload
    \/ Transcribe
    \/ AfterTranscribe
    \/ EmotionAnalysis
    \/ AfterEmotionAnalysis
    \/ SaveTranscript
    \/ CleanupAudioFile
    \/ Interrupt

SpecMain == InitMain /\ [][NextMain]_vars

(***************************************************************************)
(* analyze_emotions_with_retry(audio_path) with every attempt written out: *)
(* an attempt is one call of analyze_audio_emotions, that is analyze_audio, *)
(* generate_emotion_report and create_emotion_visualization on the         *)
(* module-level analyzer.  history records how each attempt ended.         *)
(***************************************************************************)
\* the dict analyze_audio_emotions returns
AnalysisResults(analysis) ==
    [analysis           |-> analysis,
     report_file        |-> "report_path",
     visualization_file |-> "viz_path"]

\* the attempt that has just ended, as recorded in history
Attempt ==
    [audio    |-> audio,
     analyzer |-> analyzer[1].id,
     analysis |-> result,
     ended    |-> pc,
     error    |-> error]

\* analysis_results = analyze_audio_emotions(audio_path, ...) is entered:
\* the analyzer is looked up or constructed and analyze_audio starts
AttemptStarts ==
    /\ pc = "retry_try"
    /\ IF analyzer_is_None
       THEN /\ _analyzer' = <<AudioAnalyzer(constructed + 1)>>
            /\ constructed' = constructed + 1
       ELSE UNCHANGED <<_analyzer, constructed>>
    /\ analyzer' = _analyzer'
    /\ pc' = "start"
    /\ y' = <<>>
    /\ emotions' = <<>>
    /\ tone' = <<>>
    /\ speech_patterns' = <<>>
    /\ overall_mood' = None
    /\ confidence_score' = <<>>
    /\ result' = <<>>
    /\ error' = <<>>
    /\ report' = <<>>
    /\ UNCHANGED <<audio, call, ret, history, retry_vars, report_files,
                   main_vars, transcriber_vars>>

\* analyze_audio_emotions returns its dict and the wrapper returns it
AttemptReturns ==
    /\ pc = "visualized"
    /\ pc' = "retry_returned"
    /\ history' = Append(history, Attempt)
    /\ trace' = Append(trace, Invocation(func, attempt, FALSE,
                                         AnalysisResults(result[1])))
    /\ returned' = <<AnalysisResults(result[1])>>
    /\ UNCHANGED <<audio, y, emotions, tone, speech_patterns, overall_mood,
                   confidence_score, result, error, report, call, ret,
                   _analyzer, constructed, analyzer, func, max_retries,
                   attempt, report_files, main_vars, transcriber_vars>>

\* analyze_audio_emotions raises, from analyze_audio, from
\* generate_emotion_report or from create_emotion_visualization, and the
\* except clause of the wrapper catches the exception
AttemptRaises ==
    /\ pc \in {"raised", "report_failed", "visualization_failed"}
    /\ pc' = "retry_except"
    /\ history' = Append(history, Attempt)
    /\ trace' = Append(trace, Invocation(func, attempt, TRUE, None))
    /\ UNCHANGED <<audio, y, emotions, tone, speech_patterns, overall_mood,
                   confidence_score, result, error, report, call, ret,
                   _analyzer, constructed, analyzer, func, max_retries,
                   attempt, returned, report_files, main_vars,
                   transcriber_vars>>

InitAnalyzeRetry ==
    /\ audio \in Files
    /\ y = <<>>
    /\ emotions = <<>>
    /\ tone = <<>>
    /\ speech_patterns = <<>>
    /\ overall_mood = None
    /\ confidence_score = <<>>
    /\ result = <<>>
    /\ error = <<>>
    /\ report = <<>>
    /\ NoModule
    /\ NoFiles
    /\ NoMain
    /\ NoTranscriber
    /\ call = <<>>
    /\ ret = <<>>
    /\ pc = "retry_loop"
    /\ func = "analyze_emotions_with_retry"
    /\ max_retries \in 0..MAX_RETRIES
    /\ attempt = 0
    /\ trace = <<>>
    /\ returned = <<>>

NextAnalyzeRetry ==
    \/ RetryLoop
    \/ AttemptStarts
    \/ Load
    \/ LoadFails
    \/ DetectEmotions
    \/ AnalyzeTone
    \/ AnalyzeSpeechPatterns
    \/ LibraryFails
    \/ DetermineOverallMood
    \/ CalculateConfidence
    \/ Return
    \/ GenerateEmotionReport
    \/ ReportFails
    \/ CreateEmotionVisualization
    \/ VisualizationFails
    \/ AttemptReturns
    \/ AttemptRaises
    \/ RetrySleep
    \/ RetryGiveUp

SpecAnalyzeRetry == InitAnalyzeRetry /\ [][NextAnalyzeRetry]_vars

(***************************************************************************)
(* transcriber.py: the module-level functions transcribe and               *)
(* transcribe_with_timestamps, which share the cached _transcriber.  A     *)
(* call looks the transcriber up, constructs or adjusts it, and runs the   *)
(* method of the same name on it; request records the call and how it      *)
(* ended.                                                                  *)
(***************************************************************************)
ModelNames == {"base", "small"}

Languages == {None, "", "tr", "en"}

\* AudioTranscriber.__init__ with a model that loads; id tells the
\* instances apart
AudioTranscriber(id, model_name, language) ==
    [id |-> id, model_name |-> model_name, language |-> language,
     model |-> model_name]

\* if _transcriber is None or _transcriber.model_name != model_name
NeedsTranscriber(model_name) ==
    IF _transcriber = <<>> THEN TRUE
    ELSE _transcriber[1].model_name # model_name

\* Variant of AdjustedLanguage that takes the language of every call.
AdjustedLanguage_always(cached, language) == language

\* elif language and _transcriber.language != language:
\*     _transcriber.language = language
AdjustedLanguage(cached, language) ==
    IF Truthy(language) /\ cached # language THEN language ELSE cached

Request(fn, model_name, language, outcome) ==
    [fn |-> fn, model_name |-> model_name, language |-> language,
     outcome |-> outcome]

\* one call of fn(audio_path, model_name, language): whisper.load_model
\* raises and the assignment to _transcriber is not made, or the
\* transcriber is there and its method returns or raises
TranscriberCall(fn, model_name, language) ==
    /\ pc = "idle"
    /\ NeedsTranscriber(model_name) => loaded < MaxLoads
    /\ \/ /\ NeedsTranscriber(model_name)
          /\ request' = <<Request(fn, model_name, language, "load_failed")>>
          /\ UNCHANGED <<_transcriber, loaded>>
       \/ /\ IF NeedsTranscriber(model_name)
             THEN /\ _transcriber' = <<AudioTranscriber(loaded + 1, model_name,
                                                        language)>>
                  /\ loaded' = loaded + 1
             ELSE /\ _transcriber' =
                         <<[_transcriber[1] EXCEPT !.language =
                               AdjustedLanguage(@, language)]>>
                  /\ loaded' = loaded
          /\ \E outcome \in {"returned", "raised"} :
                 request' = <<Request(fn, model_name, language, outcome)>>
    /\ UNCHANGED <<audio, pc, y, emotions, tone, speech_patterns,
                   overall_mood, confidence_score, result, error, report,
                   call, ret, module_vars, retry_vars, report_files,
                   main_vars>>

\* transcribe(audio_path, model_name, language)
transcribe ==
    \E model_name \in ModelNames, language \in Languages :
        TranscriberCall("transcribe", model_name, language)

\* transcribe_with_timestamps(audio_path, model_name, language)
transcribe_with_timestamps ==
    \E model_name \in ModelNames, language \in Languages :
        TranscriberCall("transcribe_with_timestamps", model_name, language)

InitTranscriber ==
    /\ Idle
    /\ pc = "idle"
    /\ call = <<>>
    /\ ret = <<>>

NextTranscriber ==
    \/ transcribe
    \/ transcribe_with_timestamps

SpecTranscriber == InitTranscriber /\ [][NextTranscriber]_vars

(***************************************************************************)
(*                              PROPERTIES                                 *)
(***************************************************************************)
SegmentLength == SegmentSeconds * sample_rate

\* analyze_audio has run _detect_emotions and not raised since
AfterDetect ==
    pc \in {"tone", "patterns", "mood", "confidence", "return", "done",
            "reported", "report_failed"}

\* C1: for a buffer of n samples, _detect_emotions returns exactly
\* floor(n / (5 * sr)) results: the count k satisfies
\* k * 5 * sr <= n < (k + 1) * 5 * sr.
C1_SegmentCount ==
    AfterDetect =>
        LET k == Len(emotions)
            n == BufLen(y)
        IN  k * SegmentLength <= n /\ n < (k + 1) * SegmentLength

\* two segments and a remainder that is dropped
C1_Witness ==
    /\ pc = "tone"
    /\ Len(emotions) = 2
    /\ BufLen(y) > 2 * SegmentLength

\* The rule table of the classifier, in priority order.
RuleHolds(k, f) ==
    CASE k = 1 -> FracGt(f.energy_mean, 100) /\ FracGt(f.pitch_mean, 200)
      [] k = 2 -> FracGt(f.energy_mean, 80)
                  /\ FracGt(f.spectral_centroid_mean, 2000)
      [] k = 3 -> FracLt(f.energy_mean, 50) /\ FracLt(f.pitch_mean, 150)
      [] k = 4 -> FracGt(f.energy_mean, 120)
                  /\ FracGt(f.spectral_centroid_mean, 3000)
      [] k = 5 -> FracLt(f.energy_mean, 30)
      [] k = 6 -> TRUE

RuleResult(k) ==
    CASE k = 1 -> <<"excited", 8>>
      [] k = 2 -> <<"happy", 7>>
      [] k = 3 -> <<"sad", 6>>
      [] k = 4 -> <<"angry", 7>>
      [] k = 5 -> <<"calm", 8>>
      [] k = 6 -> <<"neutral", 5>>

\* C2: _classify_emotion returns the result of the first rule, in the order
\* excited, happy, sad, angry, calm, neutral, whose predicate holds: no
\* earlier rule holds for the features and the result is that rule's.  A
\* feature set matching rules 1 and 2 yields ("excited", 0.8).
C2_FirstMatchWins ==
    pc = "classified" =>
        /\ \E k \in 1..6 :
              /\ RuleHolds(k, call)
              /\ \A j \in 1..(k - 1) : ~RuleHolds(j, call)
              /\ ret[1] = RuleResult(k)
        /\ (RuleHolds(1, call) /\ RuleHolds(2, call))
               => ret[1] = <<"excited", 8>>

\* a feature set matching rule 1 and rule 2 has been classified
C2_Witness ==
    /\ pc = "classified"
    /\ RuleHolds(1, call)
    /\ RuleHolds(2, call)
    /\ ret[1] = <<"excited", 8>>

\* the audio file holds 12 seconds of pure silence
Silent12 == IsSilent(audio) /\ BufLen(audio) = 12 * sample_rate

\* every segment of an analysis has the label and the confidence, and so
\* has the aggregate
AllSegments(a, label, confidence) ==
    /\ \A k \in 1..Len(a.emotions) :
           /\ a.emotions[k].emotion = label
           /\ a.emotions[k].confidence = confidence
    /\ a.overall_mood = label
    /\ FracEq(a.confidence_score, Whole(confidence))

\* C3 as stated: 12 seconds of silence at 22050 Hz yield exactly 2
\* segments, each "calm" with confidence 0.8, overall_mood "calm" and
\* confidence_score 0.8.
C3_SilenceIsCalm ==
    (pc = "done" /\ Silent12) =>
        /\ Len(result[1].emotions) = 2
        /\ AllSegments(result[1], "calm", 8)

\* C3 as amended: 12 seconds of silence at 22050 Hz yield exactly 2
\* segments, each "sad" with confidence 0.6 (energy_mean = 0 < 0.05 and
\* pitch_mean = 0 < 150 match rule 3, which precedes the calm rule),
\* overall_mood "sad" and confidence_score 0.6.
C3_SilenceIsSad ==
    (pc = "done" /\ Silent12) =>
        /\ Len(result[1].emotions) = 2
        /\ AllSegments(result[1], "sad", 6)

\* the analysis of 12 seconds of silence has returned
C3_Witness == pc = "done" /\ Silent12

CountOf(es, label) == Cardinality({k \in 1..Len(es) : es[k].emotion = label})

FirstAt(es, label) ==
    CHOOSE k \in 1..Len(es) :
        /\ es[k].emotion = label
        /\ \A j \in 1..(k - 1) : es[j].emotion # label

LabelsOf(es) == {es[k].emotion : k \in 1..Len(es)}

\* C4: _determine_overall_mood returns "neutral" for the empty sequence and
\* otherwise a label of the sequence whose count is maximal; among the
\* labels of maximal count it is the one that occurs first.
C4_OverallMood ==
    pc \in {"confidence", "return"} =>
        IF emotions = <<>> THEN overall_mood = "neutral"
        ELSE /\ overall_mood \in LabelsOf(emotions)
             /\ \A l \in LabelsOf(emotions) :
                    /\ CountOf(emotions, l) <= CountOf(emotions, overall_mood)
                    /\ CountOf(emotions, l) = CountOf(emotions, overall_mood)
                           => FirstAt(emotions, overall_mood)
                                  <= FirstAt(emotions, l)

\* two labels tie for the maximal count, each occurring twice
C4_Witness ==
    /\ pc = "confidence"
    /\ CountOf(emotions, overall_mood) = 2
    /\ \E l \in LabelsOf(emotions) :
           /\ l # overall_mood
           /\ CountOf(emotions, l) = 2
           /\ FirstAt(emotions, overall_mood) < FirstAt(emotions, l)

RECURSIVE ConfidenceUpTo(_, _)
ConfidenceUpTo(es, k) ==
    IF k = 0 THEN 0 ELSE es[k].confidence + ConfidenceUpTo(es, k - 1)

\* C5: _calculate_confidence returns 0.0 for the empty sequence and
\* otherwise the arithmetic mean of the confidences: the score times the
\* number of segments is the sum of the confidences.
C5_MeanConfidence ==
    pc = "return" =>
        LET score == confidence_score[1]
        IN  /\ score.den > 0
            /\ IF emotions = <<>> THEN score.num = 0
               ELSE score.num * Len(emotions)
                        = ConfidenceUpTo(emotions, Len(emotions)) * score.den

\* the mean of three or more confidences that are not all equal
C5_Witness ==
    /\ pc = "return"
    /\ Len(emotions) >= 3
    /\ \E j, k \in 1..Len(emotions) :
           emotions[j].confidence # emotions[k].confidence

\* the audio file holds a non-empty buffer shorter than one segment
ShortAudio == BufLen(audio) > 0 /\ BufLen(audio) < SegmentLength

\* C6: a non-empty buffer shorter than 5 seconds is not an error: the code
\* raises nothing of its own (only a failing load or library transform
\* ends the call), and the analysis returned has emotions == [],
\* overall_mood "neutral", confidence_score 0.0 and speech_duration
\* len(y) / sr, which is 3.0 for 3 seconds of samples.
C6_ShortBuffer ==
    ShortAudio =>
        /\ pc = "raised" => error[1].wraps \in {"LoadError", "LibraryError"}
        /\ pc = "done" =>
              LET a == result[1]
                  d == a.speech_patterns.speech_duration
              IN  /\ a.emotions = <<>>
                  /\ a.overall_mood = "neutral"
                  /\ FracEq(a.confidence_score, Whole(0))
                  /\ d.num = BufLen(audio) /\ d.den = sample_rate
                  /\ BufLen(audio) = 3 * sample_rate => d.num = 3 * d.den

\* the analysis of a 3-second buffer has returned
C6_Witness ==
    /\ pc = "done"
    /\ BufLen(audio) = 3 * sample_rate

\* the float 150.0 and the floats next to it
Float150 == FloatOfInt(150)

Float150Below == [m |-> BigSub(Float150.m, BigOfInt(1)), e |-> Float150.e]

Float150Above == [m |-> BigAdd(Float150.m, BigOfInt(1)), e |-> Float150.e]

\* C7 as stated: for every buffer with at least one sample,
\* _estimate_speaking_rate returns exactly 150.0.
C7_Exactly150 ==
    (pc = "rated" /\ BufLen(y) > 0) =>
        /\ ret[1].raises = None
        /\ ret[1].value = Float150

\* C7 as amended: for every buffer with at least one sample,
\* _estimate_speaking_rate returns 150 up to the rounding of its three
\* float operations: 150.0 or one of the two floats next to it.
C7_About150 ==
    (pc = "rated" /\ BufLen(y) > 0) =>
        /\ ret[1].raises = None
        /\ ret[1].value \in {Float150Below, Float150, Float150Above}

\* a buffer of 17 samples has been rated: 150.00000000000003
C7_Witness ==
    /\ pc = "rated"
    /\ BufLen(y) = 17
    /\ ret[1].value = Float150Above

\* C8: a zero-length buffer never makes analyze_audio return an analysis:
\* the call does not get past the tone analysis and ends raising an
\* Exception that wraps the cause.
C8_ZeroLength ==
    BufLen(audio) = 0 =>
        /\ result = <<>>
        /\ pc \in {"start", "detect", "tone", "raised"}
        /\ pc = "raised" =>
              /\ error[1].type = "Exception"
              /\ error[1].wraps \in {"LoadError", "LibraryError",
                                     "ZeroDivisionError"}

\* the division by the zero duration has ended the call
C8_Witness ==
    /\ pc = "raised"
    /\ y = <<>>
    /\ emotions = <<>>
    /\ error[1].wraps = "ZeroDivisionError"

C10_Timestamps ==
    /\ \A k \in 1..Len(emotions) : emotions[k].timestamp = (k - 1) * 5
    /\ \A k \in 1..(Len(emotions) - 1) :
           emotions[k + 1].timestamp = emotions[k].timestamp + 5

\* _detect_emotions has returned at least two results
C10_Witness ==
    /\ pc = "tone"
    /\ Len(emotions) >= 2

RECURSIVE WindowSum(_, _, _, _)
WindowSum(buf, segment_length, n, f) ==
    IF n = 0 THEN 0
    ELSE FrameSum(SegmentAt(buf, segment_length, n - 1).segment, f)
         + WindowSum(buf, segment_length, n - 1, f)

\* C11: the windows _detect_emotions hands to feature extraction: window i
\* is y[i*5*sr : (i+1)*5*sr], has exactly 5 * sr samples and lies inside
\* the buffer, and result i is the classification of its features; no two
\* windows overlap; together they hold the frames of the first
\* n * 5 * sr samples, and the len(y) mod (5 * sr) samples after them are
\* in no window.
C11_Windows ==
    pc = "tone" =>
        LET n    == Len(emotions)
            W(i) == SegmentAt(y, SegmentLength, i)
            cls(i) == _classify_emotion(_extract_emotion_features(W(i).segment))
        IN  /\ \A i \in 0..(n - 1) :
                   /\ W(i).start = i * SegmentLength
                   /\ W(i).end = (i + 1) * SegmentLength
                   /\ W(i).end <= BufLen(y)
                   /\ BufLen(W(i).segment) = SegmentLength
                   /\ emotions[i + 1].emotion = cls(i)[1]
                   /\ emotions[i + 1].confidence = cls(i)[2]
            /\ \A i, j \in 0..(n - 1) : i < j => W(i).end <= W(j).start
            /\ BufLen(y) - n * SegmentLength = BufLen(y) % SegmentLength
            /\ \A f \in {"rms", "pitch", "cent"} :
                   WindowSum(y, SegmentLength, n, f)
                       = FrameSum(Slice(y, 0, n * SegmentLength), f)

\* two windows were cut from a buffer that has one sample more
C11_Witness ==
    /\ pc = "tone"
    /\ Len(emotions) = 2
    /\ BufLen(y) = 2 * SegmentLength + 1

\* the confidence that goes with a label, in tenths
ConfidenceOf(label) ==
    CASE label = "excited" -> 8
      [] label = "happy"   -> 7
      [] label = "sad"     -> 6
      [] label = "angry"   -> 7
      [] label = "calm"    -> 8
      [] label = "neutral" -> 5

\* C12: the classifier's result has a label among happy, sad, angry,
\* neutral, excited, calm and a confidence in [0, 1]; the confidence is the
\* one that goes with the label (excited 0.8, happy 0.7, sad 0.6, angry
\* 0.7, calm 0.8, neutral 0.5), so every other feature set with the same
\* label has the same confidence, whatever its magnitudes.
C12_ConfidenceByLabel ==
    pc = "classified" =>
        LET emotion    == ret[1][1]
            confidence == ret[1][2]
        IN  /\ emotion \in emotion_labels
            /\ 0 <= confidence /\ confidence <= 10
            /\ confidence = ConfidenceOf(emotion)
            /\ \A f \in FeatureSets :
                   _classify_emotion(f)[1] = emotion
                       => _classify_emotion(f)[2] = confidence

\* a loud feature set that no rule matches has been classified neutral
C12_Witness ==
    /\ pc = "classified"
    /\ FracGt(call.energy_mean, 120)
    /\ ret[1] = <<"neutral", 5>>

\* the number of frames of runs 1..k whose RMS is strictly below 0.3 times
\* the mean total / n
RECURSIVE FramesBelow(_, _, _, _)
FramesBelow(buf, k, total, n) ==
    IF k = 0 THEN 0
    ELSE FramesBelow(buf, k - 1, total, n)
         + (IF 10 * n * buf[k].tone.rms < 3 * total THEN buf[k].len ELSE 0)

\* C13: for a non-empty buffer _calculate_pause_frequency returns the
\* number of frames whose RMS is strictly below 0.3 * mean(RMS) divided by
\* the number of frames, a value in [0, 1]; for a silent clip it is 0.
C13_PauseFrequency ==
    pc = "paused" =>
        LET r == ret[1]
            n == BufLen(y)
        IN  /\ n > 0
            /\ r.den = n
            /\ r.num = FramesBelow(y, Len(y), FrameSum(y, "rms"), n)
            /\ 0 <= r.num /\ r.num <= r.den
            /\ IsSilent(y) => r.num = 0

\* a clip with some frames below the threshold and some not
C13_Witness ==
    /\ pc = "paused"
    /\ 0 < ret[1].num
    /\ ret[1].num < ret[1].den

\* how far a call of analyze_audio has come
StepRank(p) ==
    CASE p = "start"      -> 0
      [] p = "detect"     -> 1
      [] p = "tone"       -> 2
      [] p = "patterns"   -> 3
      [] p = "mood"       -> 4
      [] p = "confidence" -> 5
      [] p = "return"     -> 6
      [] p = "done"       -> 7
      [] p = "raised"     -> 7
      [] OTHER            -> 8

Causes == {"LoadError", "LibraryError", "ZeroDivisionError"}

\* C14: analyze_audio never retries.  Every step of a call moves it
\* forward, so the file is loaded at most once and each analysis step runs
\* at most once; a failure of the load or of an analysis step takes the
\* call straight to the raise, which ends it; the error raised is an
\* Exception wrapping the cause, and no AudioAnalysis is returned.
C14_NoRetry ==
    /\ [](pc = "raised" =>
             /\ result = <<>>
             /\ Len(error) = 1
             /\ error[1].type = "Exception"
             /\ error[1].wraps \in Causes)
    /\ [][/\ StepRank(pc') > StepRank(pc)
          /\ pc # "raised"
          /\ y' # y => pc = "start"
          /\ (error' # error /\ StepRank(pc) <= 3)
                 => (pc' = "raised" /\ result' = <<>>)]_vars

\* the pattern analysis failed after emotions and tone had been produced
C14_Witness ==
    /\ pc = "raised"
    /\ error[1].wraps = "LibraryError"
    /\ emotions # <<>>
    /\ tone # <<>>
    /\ result = <<>>

\* C15: the steps of one analyze_audio call happen in a fixed order.
\* Nothing is produced before the buffer is loaded, and from the load on y
\* is the content of the file; overall_mood and confidence_score are
\* computed after _detect_emotions has returned, from its output; the
\* call returns only when emotions, tone, speech_patterns, overall_mood
\* and confidence_score have all been produced, and returns those.
C15_StepOrder ==
    /\ [](/\ pc = "start" =>
                /\ emotions = <<>> /\ tone = <<>> /\ speech_patterns = <<>>
                /\ overall_mood = None /\ confidence_score = <<>>
                /\ result = <<>>
          /\ (pc # "start" /\ pc # "raised") => y = audio
          /\ result # <<>> =>
                /\ tone # <<>> /\ speech_patterns # <<>>
                /\ overall_mood # None /\ confidence_score # <<>>
                /\ result[1] = AudioAnalysis(emotions, tone[1],
                                             speech_patterns[1], overall_mood,
                                             confidence_score[1]))
    /\ [][/\ (emotions' # emotions \/ tone' # tone
                \/ speech_patterns' # speech_patterns)
                 => (pc # "start" /\ y = audio)
          /\ (overall_mood' # overall_mood
                \/ confidence_score' # confidence_score)
                 => /\ StepRank(pc) >= 2
                    /\ emotions = _detect_emotions(y, sample_rate)
                    /\ tone # <<>>
                    /\ speech_patterns # <<>>
          /\ overall_mood' # overall_mood
                 => overall_mood' = _determine_overall_mood(emotions)
          /\ confidence_score' # confidence_score
                 => confidence_score' = <<_calculate_confidence(emotions)>>
          /\ result' # result
                 => /\ StepRank(pc) >= 2
                    /\ tone # <<>>
                    /\ speech_patterns # <<>>
                    /\ overall_mood # None
                    /\ confidence_score # <<>>]_vars

\* a call has returned the analysis of a buffer with two segments
C15_Witness ==
    /\ pc = "done"
    /\ result # <<>>
    /\ Len(result[1].emotions) = 2
    /\ result[1].overall_mood = overall_mood

\* C16: over any sequence of analyze_audio_emotions calls, failed ones
\* included, AudioAnalyzer is constructed at most once, by the first call,
\* and every call, finished or running, works on that one instance.
C16_OneAnalyzer ==
    /\ constructed <= 1
    /\ (constructed = 0) <=> (pc = "idle")
    /\ (_analyzer = <<>>) <=> (constructed = 0)
    /\ pc # "idle" =>
           /\ analyzer = _analyzer
           /\ _analyzer[1] = AudioAnalyzer(1)
           /\ \A k \in 1..Len(history) : history[k].analyzer = 1

\* a third call runs after a call that raised and a call that returned
C16_Witness ==
    /\ Len(history) = 2
    /\ history[1].analysis = <<>>
    /\ history[2].analysis # <<>>
    /\ pc = "visualized"
    /\ constructed = 1

\* the calls of the process that returned an analysis, each with its file
ReturnedCalls ==
    {[audio |-> history[k].audio, analysis |-> history[k].analysis[1]] :
        k \in {j \in 1..Len(history) : history[j].analysis # <<>>}}
    \cup (IF result # <<>>
          THEN {[audio |-> audio, analysis |-> result[1]]}
          ELSE {})

\* the feature sets a call classified, each with the result it got
Classified(c) ==
    {<<_extract_emotion_features(
           SegmentAt(c.audio, SegmentLength, i - 1).segment),
       c.analysis.emotions[i].emotion,
       c.analysis.emotions[i].confidence>> :
        i \in 1..Len(c.analysis.emotions)}

RECURSIVE RunStart(_, _)
RunStart(buf, k) ==
    IF k = 1 THEN 0 ELSE RunStart(buf, k - 1) + buf[k - 1].len

\* the result for window i, computed from that window and i alone
WindowResult(buf, i) ==
    LET cls == _classify_emotion(_extract_emotion_features(
                   SegmentAt(buf, SegmentLength, i).segment))
    IN  EmotionResult(cls[1], cls[2], i * SegmentSeconds)

\* the windows processed one at a time in the given order, each result
\* stored at its index
RECURSIVE ProcessInOrder(_, _, _)
ProcessInOrder(buf, order, slots) ==
    IF order = <<>> THEN slots
    ELSE ProcessInOrder(buf, Tail(order),
             [slots EXCEPT ![Head(order) + 1] = WindowResult(buf, Head(order))])

\* every order in which the indices 0..n-1 can be taken
Orders(n) ==
    {o \in [1..n -> 0..(n - 1)] : \A a, b \in 1..n : a # b => o[a] # o[b]}

\* C18: entry i of the sequence _detect_emotions returns depends on the
\* samples of window i and on i only.  Replacing the samples of any one
\* run of the buffer leaves unchanged every entry whose window does not
\* touch that run; and processing the windows one by one in any order,
\* storing each result at its index, gives the sequence the loop built.
C18_WindowsIndependent ==
    pc = "tone" =>
        LET n == Len(emotions)
        IN  /\ \A k \in 1..Len(y), t \in Tones :
                   LET other == [y EXCEPT ![k].tone = t]
                       es    == _detect_emotions(other, sample_rate)
                       from  == RunStart(y, k)
                       to    == from + y[k].len
                   IN  /\ Len(es) = n
                       /\ \A i \in 0..(n - 1) :
                              (to <= i * SegmentLength
                                  \/ from >= (i + 1) * SegmentLength)
                                  => es[i + 1] = emotions[i + 1]
            /\ \A o \in Orders(n) :
                   ProcessInOrder(y, o, [i \in 1..n |-> None]) = emotions

\* two windows with different results, each filled by a run of its own
C18_Witness ==
    /\ pc = "tone"
    /\ Len(emotions) = 2
    /\ Len(y) = 2
    /\ y[1].len = SegmentLength
    /\ emotions[1].emotion # emotions[2].emotion

\* on every feature set on and around the thresholds: one that satisfies
\* rule 4 satisfies rule 1 or rule 2, and none is classified angry
Rule4Subsumed ==
    \A f \in FeatureSets :
        /\ RuleHolds(4, f) => (RuleHolds(1, f) \/ RuleHolds(2, f))
        /\ _classify_emotion(f)[1] # "angry"

\* the features of window i of the loaded buffer
WindowFeatures(i) ==
    _extract_emotion_features(SegmentAt(y, SegmentLength, i).segment)

\* C19: "angry" is never returned.  A feature set that satisfies rule 4
\* (energy_mean > 0.12 and spectral_centroid_mean > 3000) satisfies rule 1
\* or rule 2, which come first; so no EmotionResult of an analysis is
\* "angry", and neither is overall_mood.
C19_NeverAngry ==
    /\ Rule4Subsumed
    /\ \A k \in 1..Len(emotions) :
           /\ emotions[k].emotion # "angry"
           /\ RuleHolds(4, WindowFeatures(k - 1))
                  => \/ RuleHolds(1, WindowFeatures(k - 1))
                     \/ RuleHolds(2, WindowFeatures(k - 1))
    /\ overall_mood # "angry"
    /\ result # <<>> =>
           /\ result[1].overall_mood # "angry"
           /\ \A k \in 1..Len(result[1].emotions) :
                  result[1].emotions[k].emotion # "angry"

\* an analysis has returned whose first window satisfies rule 4 and was
\* classified happy by rule 2
C19_Witness ==
    /\ pc = "done"
    /\ Len(emotions) >= 1
    /\ RuleHolds(4, WindowFeatures(0))
    /\ ~RuleHolds(1, WindowFeatures(0))
    /\ result[1].emotions[1].emotion = "happy"
    /\ result[1].overall_mood = "happy"

\* the positions of the trace at which the operation was invoked
Invokes == {i \in 1..Len(trace) : trace[i].op = Operation(func)}

Sleeps == {i \in 1..Len(trace) : trace[i].op = "sleep"}

AllRaised == \A i \in Invokes : trace[i].raised

\* C20: a retry wrapper called with max_retries = n >= 1 invokes its
\* operation at most n times, the k-th invocation being attempt k; an
\* attempt is made only when all attempts before it raised; the value of
\* the first attempt that does not raise is returned at once, nothing
\* following it; None is returned exactly when all n attempts raised; and
\* a sleep follows every failed attempt but the n-th, which nothing
\* follows.
C20_Retry ==
    max_retries >= 1 =>
        /\ Cardinality(Invokes) <= max_retries
        /\ \A i \in Invokes :
               /\ trace[i].attempt = Cardinality({j \in Invokes : j < i})
               /\ \A j \in Invokes : j < i => trace[j].raised
               /\ ~trace[i].raised =>
                      /\ i = Len(trace)
                      /\ pc = "retry_returned"
                      /\ returned = <<trace[i].value>>
               /\ (trace[i].raised /\ trace[i].attempt < max_retries - 1) =>
                      \/ i = Len(trace) /\ pc = "retry_except"
                      \/ i < Len(trace)
                          /\ trace[i + 1] = Sleep(SleepSeconds(func))
               /\ (trace[i].raised /\ trace[i].attempt = max_retries - 1) =>
                      i = Len(trace)
        /\ \A i \in Sleeps :
               /\ i > 1
               /\ (i - 1) \in Invokes
               /\ trace[i - 1].raised
               /\ trace[i - 1].attempt < max_retries - 1
        /\ pc = "retry_returned" =>
               /\ Len(returned) = 1
               /\ returned[1] \in {None} \cup OperationValues(func)
               /\ (returned[1] = None)
                      <=> (Cardinality(Invokes) = max_retries /\ AllRaised)
        /\ pc # "retry_returned" => returned = <<>>

\* three attempts raised: two sleeps were made and None was returned
C20_Witness ==
    /\ pc = "retry_returned"
    /\ max_retries = 3
    /\ returned = <<None>>
    /\ Cardinality(Invokes) = 3
    /\ Cardinality(Sleeps) = 2
    /\ AllRaised

\* the positions in calls at which main called fn
CallsOf(fn) == {i \in 1..Len(calls) : calls[i].fn = fn}

\* the download returned a path and the transcription a non-empty text
TranscriptReady == Truthy(audio_path) /\ Truthy(transcript)

\* what does not depend on how main ends: save_transcript is called at most
\* once, with the transcript, and only when download and transcription
\* succeeded; the emotion analysis is started only after the transcription
\* has returned a non-empty text
SaveOnlyWhenReady ==
    /\ Cardinality(CallsOf("save_transcript")) <= 1
    /\ \A i \in CallsOf("save_transcript") :
           /\ TranscriptReady
           /\ calls[i].arg = transcript
    /\ \A i \in CallsOf("analyze_emotions_with_retry") :
           /\ TranscriptReady
           /\ \E j \in CallsOf("transcribe_with_retry") : j < i

C22_EmptyTranscript ==
    /\ func = "transcribe_with_retry" =>
           \A i \in Invokes :
               (~trace[i].raised /\ trace[i].value = "") =>
                   /\ i = Len(trace)
                   /\ pc \in {"retry_returned", "main_returned"}
                   /\ returned = <<"">>
    /\ transcript = "" =>
           /\ pc = "main_returned"
           /\ Len(calls) = 3
           /\ calls[1].fn = "download_with_retry"
           /\ calls[2].fn = "transcribe_with_retry"
           /\ calls[3] = MainCall("cleanup_audio_file", audio_path)

\* the first attempt of the transcription returned "" and main has ended,
\* although the emotion analysis was requested
C22_Witness ==
    /\ transcript = ""
    /\ emotion_analysis
    /\ trace = <<Invocation("transcribe_with_retry", 0, FALSE, "")>>
    /\ pc = "main_returned"

\* C23: once download_with_retry has returned a path, a run of main that
\* ends with no exception caught by its except clauses has called
\* cleanup_audio_file exactly once; the call is the last one main makes,
\* after the transcription, the emotion analysis if it was requested and
\* the call of save_transcript; when the download failed, it is never
\* called.
C23_CleanupOnce ==
    /\ Cardinality(CallsOf("cleanup_audio_file")) <= 1
    /\ \A i \in CallsOf("cleanup_audio_file") :
           /\ i = Len(calls)
           /\ pc = "main_returned"
           /\ Truthy(audio_path)
           /\ calls[i].arg = audio_path
           /\ \E j \in CallsOf("transcribe_with_retry") : j < i
           /\ Truthy(transcript) =>
                  /\ \E j \in CallsOf("save_transcript") : j = i - 1
                  /\ emotion_analysis =>
                         \E j \in CallsOf("analyze_emotions_with_retry") :
                             j < i - 1
    /\ (pc = "main_returned" /\ Truthy(audio_path)) =>
           CallsOf("cleanup_audio_file") # {}
    /\ ~Truthy(audio_path) => CallsOf("cleanup_audio_file") = {}

\* all three steps ran and the audio file was removed after them
C23_Witness ==
    /\ pc = "main_returned"
    /\ [i \in 1..Len(calls) |-> calls[i].fn]
           = <<"download_with_retry", "transcribe_with_retry",
               "analyze_emotions_with_retry", "display_analysis_summary",
               "save_transcript", "cleanup_audio_file">>

\* the position in trace of the invocation made as attempt k
InvocationOf(k) == CHOOSE i \in Invokes : trace[i].attempt = k

\* the attempt left a report file: generate_emotion_report returned, or
\* json.dump raised after open had created the file
WroteReport(ended, err) ==
    \/ ended \in {"reported", "visualized", "visualization_failed"}
    \/ ended = "report_failed" /\ err[1].type = "TypeError"

\* the report file holds the analysis of the running attempt
ReportOfResult ==
    /\ result # <<>>
    /\ report = <<JsonDump(report_data(result[1]))>>

\* C24: analyze_audio_emotions performs the analysis, then writes the
\* report, then draws the visualization, and returns its dict of analysis,
\* report_file and visualization_file only when all three succeeded; when
\* the visualization raises, the attempt counts as raised although its
\* report file is written and stays; every retry of
\* analyze_emotions_with_retry starts the analysis from the beginning, and
\* the report files left behind are one for every attempt that got as far
\* as writing its report.
C24_ReportsLeftBehind ==
    /\ [](/\ pc \in {"done", "report_failed"} => result # <<>>
          /\ pc \in {"reported", "visualized", "visualization_failed"}
                 => ReportOfResult
          /\ Len(history) = Cardinality(Invokes)
          /\ \A k \in 1..Len(history) :
                 LET e == history[k]
                     i == InvocationOf(k - 1)
                 IN  /\ trace[i].raised <=> e.ended # "visualized"
                     /\ ~trace[i].raised =>
                            /\ e.analysis # <<>>
                            /\ trace[i].value = AnalysisResults(e.analysis[1])
                            /\ returned = <<trace[i].value>>
                            /\ ReportOfResult
                            /\ result = e.analysis
                     /\ e.ended = "visualization_failed" =>
                            /\ e.analysis # <<>>
                            /\ WroteReport(e.ended, e.error)
                     /\ \A j \in 1..Len(history) :
                            (e.analysis # <<>> /\ history[j].analysis # <<>>)
                                => e.analysis = history[j].analysis
          /\ report_files
                 = Cardinality({k \in 1..Len(history) :
                                   WroteReport(history[k].ended,
                                               history[k].error)})
                   + (IF WroteReport(pc, error) THEN 1 ELSE 0))
    /\ [][pc = "retry_try" =>
              /\ pc' = "start"
              /\ y' = <<>>
              /\ emotions' = <<>>
              /\ result' = <<>>
              /\ report' = <<>>
              /\ report_files' = report_files]_vars

\* three attempts failed in the visualization: None was returned and three
\* report files are left
C24_Witness ==
    /\ pc = "retry_returned"
    /\ max_retries = 3
    /\ Len(history) = 3
    /\ \A k \in 1..3 : history[k].ended = "visualization_failed"
    /\ AllRaised
    /\ returned = <<None>>
    /\ report_files = 3

\* C25: across the calls of transcribe and transcribe_with_timestamps the
\* cached transcriber is replaced by a newly loaded one exactly when none
\* is cached or the requested model_name differs from the cached one (and
\* the model loads); when loading fails the cache stays as it was;
\* otherwise the cached transcriber is reused, and its language changes
\* only to a non-empty language of the call that differs from it, so that
\* a call with language None (or "") keeps the language of an earlier call.
C25_TranscriberCache ==
    [][LET r      == request'[1]
           needed == NeedsTranscriber(r.model_name)
       IN  /\ request' # <<>>
           /\ IF needed /\ r.outcome # "load_failed"
              THEN /\ loaded' = loaded + 1
                   /\ _transcriber' = <<AudioTranscriber(loaded', r.model_name,
                                                         r.language)>>
                   /\ _transcriber # <<>> =>
                          _transcriber'[1].id # _transcriber[1].id
              ELSE /\ loaded' = loaded
                   /\ needed => _transcriber' = _transcriber
                   /\ ~needed =>
                          /\ r.outcome # "load_failed"
                          /\ _transcriber'[1].id = _transcriber[1].id
                          /\ _transcriber'[1].model_name = r.model_name
                          /\ _transcriber'[1].model = _transcriber[1].model
                          /\ _transcriber'[1].language # _transcriber[1].language
                                 <=> /\ r.language \notin {None, ""}
                                     /\ r.language # _transcriber[1].language
                          /\ _transcriber'[1].language
                                 \in {_transcriber[1].language, r.language}
    ]_vars

\* the transcriber loaded first serves a call without a language and still
\* has the language "tr" an earlier call gave it
C25_Witness ==
    /\ request # <<>>
    /\ request[1].language = None
    /\ request[1].outcome = "returned"
    /\ request[1].fn = "transcribe_with_timestamps"
    /\ _transcriber # <<>>
    /\ _transcriber[1].language = "tr"
    /\ loaded = 1

====
